---- MODULE Spec2Model ----
(***************************************************************************)
(* A model of the remote-session core of GHIssuesAgent: the rate limiter   *)
(* of safe_devin_api_call, the session pollers, cancel_session and the     *)
(* artifact extractors, each translated from the Python source.            *)
(*                                                                         *)
(* Time is counted in ticks of 5 seconds, so that the fixed pauses of the  *)
(* code (5 s, 10 s, 15 s * n) are whole numbers of ticks.                  *)
(***************************************************************************)
EXTENDS Integers, Sequences, FiniteSets, TLC

(***************************************************************************)
(* Bounds of the model.                                                    *)
(***************************************************************************)
NumThreads == 2
MaxCalls == 3
MaxClock == 7
MaxElapsed == 7
MaxMessages == 1
MaxTimeout == 7
MaxAttempts == 3

MaxSessionMessages == 2

MaxAgentCalls == 3
MaxRaceTimeout == 3
MaxRaceAttempts == 2

Threads == 1..NumThreads

(***************************************************************************)
(* Program constants, in ticks.                                            *)
(***************************************************************************)
\* core/session_manager.py imports MIN_SECONDS_BETWEEN_CALLS from
\* utils.config; the value is a positive number of seconds (here 10 s).
MIN_SECONDS_BETWEEN_CALLS == 2
\* time.sleep(5) between failed attempts of safe_devin_api_call.
RetryPause == 1
\* range(3): the attempts of safe_devin_api_call.
MaxApiAttempts == 3

VARIABLES
    clock,                  \* time.time(), in ticks
    devin_api_lock,         \* 0 when free, else the thread holding it
    last_devin_api_call,    \* the module-level global
    pc,                     \* pc[t]: where thread t is in safe_devin_api_call
    wake,                   \* wake[t]: the clock value at which t's sleep ends
    attempt,                \* attempt[t]: the loop variable of the retry loop
    calls,                  \* the calls of safe_devin_api_call so far
    admitted,               \* the admission times, in the order recorded
    op,                     \* op[t]: the function t's call wraps
    rate_fails,             \* history: the 429 failures of t's call so far
    call_result,            \* call_result[t]: what t's call returned
    last_request,           \* history: the latest outbound request and
                            \* the time it was made
    sessions_created,       \* history: the sessions the service created in
                            \* answer to t's call
    outer                   \* outer[t]: the frame of the wrapped agent
                            \* method t is inside, if any

VARIABLES
    remote_status,          \* the session's status_enum at the remote service
    remote_messages,        \* how many messages the session holds there
    remote_pr,              \* whether an agent message there holds a PR URL
    poll_pc,                \* where the poller is
    poll_kind,              \* which poller runs
    start_time,             \* the poller's start_time
    timeout,                \* its timeout parameter
    show_live,              \* its show_live parameter
    last_message_count,     \* its last_message_count
    session_data,           \* the snapshot of the round, while it is in use
    poll_wake,              \* the clock value at which the poller's sleep ends
    backoff,                \* the backoff of the asynchronous poller, seconds
    poll_result,            \* what the poller returned or raised
    failures,               \* history: consecutive polls that failed
    poll_gets,              \* history: the poller's requests for the session
    poll_first_terminal,    \* history: which of them was the first to be
                            \* answered with a terminal status, 0 for none
    poll_clean,             \* history: every one of them was answered
    emitted,                \* history: the messages display_live_messages
                            \* printed, by their place in the session
    poll_methods            \* history: the HTTP methods of the poller's
                            \* requests

VARIABLES
    cancel_pc,              \* where the cancellation is
    cancel_kind,            \* which cancellation runs
    cancel_attempt,         \* its loop variable attempt
    max_attempts,           \* its max_attempts
    cancel_posts,           \* history: the postMessage requests it made
    cancel_delivered,       \* history: how many of them were delivered
    cancel_threw,           \* history: whether one of them raised
    cancel_result,          \* what it returned
    cancel_first_status     \* history: the session's status when it began

VARIABLES
    ext_pc,                 \* where the extraction is
    ext_kind,               \* which extraction ran
    ext_session,            \* the snapshot it was given
    ext_store,              \* the attachments the service holds
    ext_filter,             \* its name_filter
    ext_result              \* what it returned or raised

VARIABLES
    cache_files,            \* the cache directory: each file's content
    a_pc,                   \* where each worker's agent call is
    a_kind,                 \* which agent method it runs
    a_subject,              \* the subject it was called for
    a_doc,                  \* the document it extracted
    a_off,                  \* the offset of its open cache file
    a_checked,              \* history: what its cache check found
    a_sessions,             \* history: the sessions the call created
    a_done,                 \* history: each worker's finished calls
    agent_calls             \* history: the calls started so far

VARIABLES
    run_pc,                 \* where run_agents_on_issue is
    thread_pc,              \* thread_pc[a]: where the thread of agent a is
    result_queue,           \* result_queue: the items put and not yet taken
    agent_completed,        \* agent2_completed and agent3_completed
    current_session_id,     \* agent3._current_session_id: "none" or "set"
    run_reports,            \* history: the failures run_agents_on_issue
                            \* printed
    put_kind,               \* history: what each thread put on the queue
    agent3_sessions,        \* history: the sessions Agent 3 created
    stop_sent               \* history: cancel_session was called on Agent
                            \* 3's session

VARIABLES
    key_subjects,           \* the subjects get_cache_file_path was called for
    key_paths               \* the paths it returned for them, in that order

rateState == <<devin_api_lock, last_devin_api_call, pc, wake, attempt, calls,
               admitted, op, rate_fails, call_result, last_request,
               sessions_created, outer>>

remoteVars == <<remote_status, remote_messages, remote_pr>>

pollVars == <<poll_pc, poll_kind, start_time, timeout, show_live,
              last_message_count, session_data, poll_wake, backoff,
              poll_result, failures, poll_gets, poll_first_terminal,
              poll_clean, emitted, poll_methods>>

pollHistory == <<poll_gets, poll_first_terminal, poll_clean, emitted,
                 poll_methods>>

cancelVars == <<cancel_pc, cancel_kind, cancel_attempt, max_attempts,
                cancel_posts, cancel_delivered, cancel_threw, cancel_result,
                cancel_first_status>>

extractVars == <<ext_pc, ext_kind, ext_session, ext_store, ext_filter,
                 ext_result>>

keyVars == <<key_subjects, key_paths>>

runVars == <<run_pc, thread_pc, result_queue, agent_completed,
            current_session_id, run_reports, put_kind, agent3_sessions,
            stop_sent>>

cacheVars == <<cache_files, a_pc, a_kind, a_subject, a_doc, a_off, a_checked,
               a_sessions, a_done, agent_calls>>

\* What the admission steps of safe_devin_api_call leave alone.
callHistory == <<op, rate_fails, call_result, last_request,
                 sessions_created, outer>>

\* What the operations of safe_devin_api_call leave alone.
notRate == <<remoteVars, pollVars, cancelVars, extractVars, cacheVars,
            runVars, keyVars>>

\* What the pollers and the remote service leave alone.
notPoll == <<rateState, cancelVars, extractVars, cacheVars, runVars,
            keyVars>>

(***************************************************************************)
(* safe_devin_api_call: the admission.                                     *)
(***************************************************************************)
\* WaitTime with the pause left out.
WaitTimeNoPause(now, last) == 0

\* wait_time, 0 when the branch that sleeps is not taken.
WaitTime(now, last) ==
    IF now - last < MIN_SECONDS_BETWEEN_CALLS
    THEN MIN_SECONDS_BETWEEN_CALLS - (now - last)
    ELSE 0

\* RateLimitPause with the same 15 seconds after every attempt.
RateLimitPauseFlat(a) == 3

\* 15 * (attempt + 1) seconds.
RateLimitPause(a) == 3 * (a + 1)

\* The functions handed to safe_devin_api_call: _create_session of
\* create_devin_session and _get_details of get_session_details.
WrappedOps == {"_create_session", "_get_details"}

\* The functions that call requests.post or requests.get themselves.
DirectOps ==
    {"send_session_message", "download_attachment",
     "download_json_attachments"}

\* What the service answers to a request: a 2xx response with the expected
\* body, a 2xx response whose session_id is empty, a 2xx response without
\* session_id, a non-2xx status, or 429 Too Many Requests.
Responses == {"ok", "empty_id", "no_id", "non2xx", "429"}

\* What the wrapped function does with the response: raise_for_status()
\* raises on 429 and on any other non-2xx status, data["session_id"] raises
\* KeyError when the key is missing and returns whatever the key holds.
Invoke(o, r) ==
    CASE r = "429" -> [how |-> "raised", value |-> "rate"]
      [] r = "non2xx" -> [how |-> "raised", value |-> "other"]
      [] r = "no_id" /\ o = "_create_session" ->
             [how |-> "raised", value |-> "other"]
      [] r = "empty_id" /\ o = "_create_session" ->
             [how |-> "returned", value |-> "empty id"]
      [] r = "ok" /\ o = "_create_session" ->
             [how |-> "returned", value |-> "session id"]
      [] OTHER -> [how |-> "returned", value |-> "json"]

\* Whether the service has carried the request out when it answers: every
\* 2xx answer to POST /sessions stands for a session it created.
Accepted(o, r) ==
    IF o = "_create_session" /\ r \in {"ok", "empty_id", "no_id"}
    THEN 1 ELSE 0

\* No request yet.
NoRequest == [op |-> "none", admitted |-> TRUE, at |-> 0]

InitRate ==
    /\ op = [t \in Threads |-> "_get_details"]
    /\ rate_fails = [t \in Threads |-> 0]
    /\ call_result = [t \in Threads |-> "none"]
    /\ last_request = NoRequest
    /\ sessions_created = [t \in Threads |-> 0]
    /\ outer = [t \in Threads |-> <<>>]
    /\ clock = MIN_SECONDS_BETWEEN_CALLS
    /\ devin_api_lock = 0
    /\ last_devin_api_call = 0
    /\ pc = [t \in Threads |-> "idle"]
    /\ wake = [t \in Threads |-> 0]
    /\ attempt = [t \in Threads |-> 0]
    /\ calls = 0
    /\ admitted = <<>>

\* Time passes.
Tick ==
    /\ clock' = clock + 1
    /\ UNCHANGED <<rateState, notRate>>

\* Time passes while threads call safe_devin_api_call.
RateTick ==
    /\ clock < MaxClock
    /\ Tick

\* A thread calls safe_devin_api_call, after its previous call returned or
\* raised.
Enter(t, o) ==
    /\ pc[t] \in {"idle", "returned", "raised", "raised_rate_limited"}
    /\ calls < MaxCalls
    /\ calls' = calls + 1
    /\ pc' = [pc EXCEPT ![t] = "acquire"]
    /\ op' = [op EXCEPT ![t] = o]
    /\ rate_fails' = [rate_fails EXCEPT ![t] = 0]
    /\ call_result' = [call_result EXCEPT ![t] = "none"]
    /\ sessions_created' = [sessions_created EXCEPT ![t] = 0]
    /\ UNCHANGED <<clock, devin_api_lock, last_devin_api_call, wake, attempt,
                   admitted, last_request, outer, notRate>>

\* A caller outside safe_devin_api_call runs one of the functions that make
\* their request themselves: the request goes out at once.
DirectRequest(o) ==
    /\ calls < MaxCalls
    /\ calls' = calls + 1
    /\ last_request' = [op |-> o, admitted |-> FALSE, at |-> clock]
    /\ UNCHANGED <<clock, devin_api_lock, last_devin_api_call, pc, wake,
                   attempt, admitted, op, rate_fails, call_result,
                   sessions_created, outer, notRate>>

\* with devin_api_lock:
Acquire(t) ==
    /\ pc[t] = "acquire"
    /\ devin_api_lock = 0
    /\ devin_api_lock' = t
    /\ pc' = [pc EXCEPT ![t] = "locked"]
    /\ UNCHANGED <<clock, last_devin_api_call, wake, attempt, calls, admitted,
                   callHistory, notRate>>

\* now = time.time(); time_since_last_call = now - last_devin_api_call; when
\* it is below MIN_SECONDS_BETWEEN_CALLS, time.sleep(wait_time), which ends
\* no sooner than wait_time after now.
ReadNow(t) ==
    /\ pc[t] = "locked"
    /\ LET now == clock
           wait_time == WaitTime(now, last_devin_api_call)
       IN  IF wait_time > 0
           THEN /\ wake' = [wake EXCEPT ![t] = now + wait_time]
                /\ pc' = [pc EXCEPT ![t] = "sleeping"]
           ELSE /\ pc' = [pc EXCEPT ![t] = "record"]
                /\ UNCHANGED wake
    /\ UNCHANGED <<clock, devin_api_lock, last_devin_api_call, attempt, calls,
                   admitted,
                   callHistory, notRate>>

\* time.sleep(wait_time) returns.
EndSleep(t) ==
    /\ pc[t] = "sleeping"
    /\ clock >= wake[t]
    /\ pc' = [pc EXCEPT ![t] = "record"]
    /\ UNCHANGED <<clock, devin_api_lock, last_devin_api_call, wake, attempt,
                   calls, admitted,
                   callHistory, notRate>>

\* Record with the lock kept when the with block ends.
RecordKeepsLock(t) ==
    /\ pc[t] = "record"
    /\ last_devin_api_call' = clock
    /\ admitted' = Append(admitted, clock)
    /\ attempt' = [attempt EXCEPT ![t] = 0]
    /\ pc' = [pc EXCEPT ![t] = "call"]
    /\ UNCHANGED <<clock, devin_api_lock, wake, calls, callHistory, notRate>>

\* last_devin_api_call = time.time(), and the lock is released as the with
\* block ends.
Record(t) ==
    /\ pc[t] = "record"
    /\ last_devin_api_call' = clock
    /\ admitted' = Append(admitted, clock)
    /\ devin_api_lock' = 0
    /\ attempt' = [attempt EXCEPT ![t] = 0]
    /\ pc' = [pc EXCEPT ![t] = "call"]
    /\ UNCHANGED <<clock, wake, calls,
                   callHistory, notRate>>

(***************************************************************************)
(* safe_devin_api_call: the retry loop, for attempt in range(3).           *)
(***************************************************************************)
\* func(*args, **kwargs) makes its request and returns, and so does
\* safe_devin_api_call.
CallOk(t, r) ==
    /\ pc[t] = "call"
    /\ Invoke(op[t], r).how = "returned"
    /\ sessions_created' =
           [sessions_created EXCEPT ![t] = @ + Accepted(op[t], r)]
    /\ pc' = [pc EXCEPT ![t] = "returned"]
    /\ call_result' = [call_result EXCEPT ![t] = Invoke(op[t], r).value]
    /\ last_request' = [op |-> op[t], admitted |-> TRUE, at |-> clock]
    /\ wake' = [wake EXCEPT ![t] = 0]
    /\ attempt' = [attempt EXCEPT ![t] = 0]
    /\ rate_fails' = [rate_fails EXCEPT ![t] = 0]
    /\ UNCHANGED <<clock, devin_api_lock, last_devin_api_call, calls, admitted,
                   op, outer, notRate>>

\* func makes its request and raises: "rate" is an error naming 429 / Too
\* Many Requests, "other" any other exception.
CallFails(t, r) ==
    /\ pc[t] = "call"
    /\ Invoke(op[t], r).how = "raised"
    /\ sessions_created' =
           [sessions_created EXCEPT ![t] = @ + Accepted(op[t], r)]
    /\ last_request' = [op |-> op[t], admitted |-> TRUE, at |-> clock]
    /\ IF Invoke(op[t], r).value = "rate"
       THEN \* time.sleep(wait_time) comes before the test of attempt == 2
            /\ wake' = [wake EXCEPT ![t] = clock + RateLimitPause(attempt[t])]
            /\ pc' = [pc EXCEPT ![t] = "backoff_rate"]
            /\ rate_fails' = [rate_fails EXCEPT ![t] = @ + 1]
            /\ UNCHANGED attempt
       ELSE IF attempt[t] = MaxApiAttempts - 1
            THEN /\ pc' = [pc EXCEPT ![t] = "raised"]
                 /\ wake' = [wake EXCEPT ![t] = 0]
                 /\ attempt' = [attempt EXCEPT ![t] = 0]
                 /\ rate_fails' = [rate_fails EXCEPT ![t] = 0]
            ELSE /\ wake' = [wake EXCEPT ![t] = clock + RetryPause]
                 /\ pc' = [pc EXCEPT ![t] = "backoff"]
                 /\ UNCHANGED <<attempt, rate_fails>>
    /\ UNCHANGED <<clock, devin_api_lock, last_devin_api_call, calls, admitted,
                   op, call_result, outer, notRate>>

\* The pause after a failed attempt ends; the loop goes on or raises.
EndBackoff(t) ==
    /\ pc[t] \in {"backoff", "backoff_rate"}
    /\ clock >= wake[t]
    /\ IF pc[t] = "backoff_rate" /\ attempt[t] = MaxApiAttempts - 1
       THEN /\ pc' = [pc EXCEPT ![t] = "raised_rate_limited"]
            /\ wake' = [wake EXCEPT ![t] = 0]
            /\ attempt' = [attempt EXCEPT ![t] = 0]
       ELSE /\ attempt' = [attempt EXCEPT ![t] = attempt[t] + 1]
            /\ pc' = [pc EXCEPT ![t] = "call"]
            /\ UNCHANGED wake
    /\ UNCHANGED <<clock, devin_api_lock, last_devin_api_call, calls, admitted,
                   callHistory, notRate>>

\* Time passes while a thread is in one of its time.sleep calls.
SleepTick ==
    /\ \E t \in Threads :
          /\ pc[t] \in {"sleeping", "backoff", "backoff_rate"}
          /\ clock < wake[t]
    /\ Tick

\* The threads polling sessions: every call is _get_details.
NextRate ==
    \/ RateTick
    \/ \E t \in Threads : Enter(t, "_get_details")
    \/ \E t \in Threads : Acquire(t)
    \/ \E t \in Threads : ReadNow(t)
    \/ \E t \in Threads : EndSleep(t)
    \/ \E t \in Threads : Record(t)
    \/ \E t \in Threads, r \in Responses : CallOk(t, r)
    \/ \E t \in Threads, r \in Responses : CallFails(t, r)
    \/ \E t \in Threads : EndBackoff(t)

\* The answers after which the retry loop pauses 5 s at most: a 2xx response
\* and a non-2xx status other than 429.
PlainResponses == {"ok", "non2xx"}

\* What a thread inside safe_devin_api_call does next.
ThreadStep(t) ==
    \/ Acquire(t)
    \/ ReadNow(t)
    \/ EndSleep(t)
    \/ Record(t)
    \/ \E r \in PlainResponses : CallOk(t, r)
    \/ \E r \in PlainResponses : CallFails(t, r)
    \/ EndBackoff(t)

\* The threads of NextRate with the time a sleeping thread waits for: a
\* runnable thread is scheduled, and the clock goes on while a thread sleeps.
NextRateFair ==
    \/ SleepTick
    \/ \E t \in Threads : Enter(t, "_get_details")
    \/ \E t \in Threads : ThreadStep(t)

\* One caller going through the remote operations one after the other: the
\* wrapped ones through safe_devin_api_call, the others on their own.
Caller == 1

NextRetry ==
    \/ SleepTick
    \/ \E o \in WrappedOps : Enter(Caller, o)
    \/ \E o \in DirectOps : DirectRequest(o)
    \/ Acquire(Caller)
    \/ ReadNow(Caller)
    \/ EndSleep(Caller)
    \/ Record(Caller)
    \/ \E r \in Responses : CallOk(Caller, r)
    \/ \E r \in Responses : CallFails(Caller, r)
    \/ EndBackoff(Caller)

(***************************************************************************)
(* process_issue_parallel: two workers, each inside safe_devin_api_call    *)
(* around an agent method that calls safe_devin_api_call itself.           *)
(***************************************************************************)
\* The calls of safe_devin_api_call, outer and inner ones, the two workers
\* make at most.
MaxNestedCalls == 4

\* The wrapped agent methods.
AgentMethods == {"analyze_issue_feasibility", "review_files_and_plan"}

\* run_feasibility is submitted first, run_planning second.
Method(t) ==
    IF t = 1 THEN "analyze_issue_feasibility" ELSE "review_files_and_plan"

\* safe_devin_api_call(agent.analyze_issue_feasibility, issue, repo_url) or
\* safe_devin_api_call(agent.review_files_and_plan, issue, repo_url): each
\* worker runs the one function submitted to it.
EnterMethod(t) ==
    /\ pc[t] = "idle"
    /\ outer[t] = <<>>
    /\ Enter(t, Method(t))

\* Inside the method, create_devin_session or get_session_details calls
\* safe_devin_api_call: the outer call's loop variable stays in its frame.
EnterInner(t, o) ==
    /\ pc[t] = "call"
    /\ op[t] \in AgentMethods
    /\ calls < MaxNestedCalls
    /\ calls' = calls + 1
    /\ outer' = [outer EXCEPT ![t] = <<[op |-> op[t], attempt |-> attempt[t]]>>]
    /\ op' = [op EXCEPT ![t] = o]
    /\ pc' = [pc EXCEPT ![t] = "acquire"]
    /\ rate_fails' = [rate_fails EXCEPT ![t] = 0]
    /\ call_result' = [call_result EXCEPT ![t] = "none"]
    /\ UNCHANGED <<clock, devin_api_lock, last_devin_api_call, wake, attempt,
                   admitted, last_request, sessions_created, notRate>>

\* The inner call returns into the method, which goes on.
InnerReturns(t) ==
    /\ pc[t] = "returned"
    /\ outer[t] # <<>>
    /\ op[t] \notin AgentMethods
    /\ op' = [op EXCEPT ![t] = outer[t][1].op]
    /\ attempt' = [attempt EXCEPT ![t] = outer[t][1].attempt]
    /\ pc' = [pc EXCEPT ![t] = "call"]
    /\ outer' = [outer EXCEPT ![t] = <<>>]
    /\ UNCHANGED <<clock, devin_api_lock, last_devin_api_call, wake, calls,
                   admitted, rate_fails, call_result, last_request,
                   sessions_created, notRate>>

\* The inner call raises and the method lets the exception through: the
\* outer loop pauses and runs the method again, or raises after the third
\* run. An inner call that gave up on 429 answers raises an exception whose
\* text holds that of the last one, so the outer loop takes it for a 429.
InnerRaises(t) ==
    /\ pc[t] \in {"raised", "raised_rate_limited"}
    /\ outer[t] # <<>>
    /\ op[t] \notin AgentMethods
    /\ op' = [op EXCEPT ![t] = outer[t][1].op]
    /\ outer' = [outer EXCEPT ![t] = <<>>]
    /\ LET a == outer[t][1].attempt
       IN  IF pc[t] = "raised_rate_limited"
           THEN /\ wake' = [wake EXCEPT ![t] = clock + RateLimitPause(a)]
                /\ pc' = [pc EXCEPT ![t] = "backoff_rate"]
                /\ attempt' = [attempt EXCEPT ![t] = a]
           ELSE IF a = MaxApiAttempts - 1
                THEN /\ pc' = [pc EXCEPT ![t] = "raised"]
                     /\ wake' = [wake EXCEPT ![t] = 0]
                     /\ attempt' = [attempt EXCEPT ![t] = 0]
                ELSE /\ wake' = [wake EXCEPT ![t] = clock + RetryPause]
                     /\ pc' = [pc EXCEPT ![t] = "backoff"]
                     /\ attempt' = [attempt EXCEPT ![t] = a]
    /\ UNCHANGED <<clock, devin_api_lock, last_devin_api_call, calls, admitted,
                   rate_fails, call_result, last_request, sessions_created,
                   notRate>>

\* The method returns, and so does the outer safe_devin_api_call.
MethodReturns(t) ==
    /\ pc[t] = "call"
    /\ op[t] \in AgentMethods
    /\ pc' = [pc EXCEPT ![t] = "returned"]
    /\ call_result' = [call_result EXCEPT ![t] = "json"]
    /\ outer' = [outer EXCEPT ![t] = <<>>]
    /\ wake' = [wake EXCEPT ![t] = 0]
    /\ attempt' = [attempt EXCEPT ![t] = 0]
    /\ UNCHANGED <<clock, devin_api_lock, last_devin_api_call, calls, admitted,
                   op, rate_fails, last_request, sessions_created, notRate>>

\* What a worker of process_issue_parallel does next.
WorkerStep(t) ==
    \/ Acquire(t)
    \/ ReadNow(t)
    \/ EndSleep(t)
    \/ Record(t)
    \/ \E o \in WrappedOps : EnterInner(t, o)
    \/ \E r \in PlainResponses : op[t] \notin AgentMethods /\ CallOk(t, r)
    \/ \E r \in PlainResponses : op[t] \notin AgentMethods /\ CallFails(t, r)
    \/ InnerReturns(t)
    \/ InnerRaises(t)
    \/ MethodReturns(t)
    \/ EndBackoff(t)

NextNested ==
    \/ SleepTick
    \/ \E t \in Threads : EnterMethod(t)
    \/ \E t \in Threads : WorkerStep(t)

(***************************************************************************)
(* The remote service: it alone changes a session's status and messages.   *)
(***************************************************************************)
Statuses ==
    {"created", "working", "blocked", "stopped", "completed", "failed",
     "expired"}

\* The statuses after which the service changes the session no further.
SpecTerminal == {"blocked", "stopped", "completed", "failed", "expired"}

\* A session that is still running moves on: created to working, and either
\* to any terminal status.
RemoteStatusChange(s) ==
    /\ remote_status \notin SpecTerminal
    /\ s \in Statuses \ {"created", remote_status}
    /\ remote_status' = s
    /\ UNCHANGED <<clock, notPoll, remote_messages, remote_pr, pollVars>>

\* The session gets one more message; pr says whether it is an agent
\* message holding a pull-request URL.
RemoteMessage(pr) ==
    /\ remote_messages < MaxMessages
    /\ remote_messages' = remote_messages + 1
    /\ remote_pr' = (remote_pr \/ pr)
    /\ UNCHANGED <<clock, notPoll, remote_status, pollVars>>

(***************************************************************************)
(* The pollers: wait_for_session_completion ("session") and                *)
(* wait_for_execution_completion ("execution") of core/session_manager.py, *)
(* and wait_for_session_completion of api/session_manager.py ("api").      *)
(***************************************************************************)
CorePollers == {"session", "execution"}
Pollers == CorePollers \cup {"api"}

\* time.sleep(10) at the end of each round of the core pollers.
PollInterval == 2

\* A session snapshot, as far as the pollers read it: the keys "error" and
\* "status_enum" ("none" when the key is absent), the length of "messages"
\* and whether extract_pr_url_from_session finds a URL in them.
Snapshot(status, n, pr) ==
    [error |-> "none", status_enum |-> status, messages |-> n, pr |-> pr]

\* {}: what get_session_details returns when the request failed.
EmptySnapshot == Snapshot("none", 0, FALSE)

\* {"error": "timeout"}
TimeoutResult ==
    [error |-> "timeout", status_enum |-> "none", messages |-> 0, pr |-> FALSE]

\* The exception of the asynchronous poller, as a value.
TimedOutException ==
    [error |-> "timed out", status_enum |-> "none", messages |-> 0,
     pr |-> FALSE]

\* A failed request of the asynchronous poller, which catches nothing.
TransportException ==
    [error |-> "transport", status_enum |-> "none", messages |-> 0,
     pr |-> FALSE]

NoResult == [how |-> "none", value |-> EmptySnapshot]

\* The statuses on which each poller returns the snapshot.
CoreTerminal == {"completed", "failed", "stopped", "blocked"}
ApiTerminal == {"blocked", "stopped"}

TerminalFor(k) == IF k = "api" THEN ApiTerminal ELSE CoreTerminal

\* The loop condition: while time.time() - start_time < timeout in the core
\* pollers, if ... - start_time > timeout at the top of the loop in api.
DeadlinePassed(k, elapsed, to) ==
    IF k = "api" THEN elapsed > to ELSE ~(elapsed < to)

\* OnDeadline with every poller raising.
OnDeadlineRaise(k) == [how |-> "raised", value |-> TimedOutException]

\* What the poller does when the deadline has passed: the core pollers
\* return {"error": "timeout"}, the asynchronous one raises.
OnDeadline(k) ==
    IF k = "api"
    THEN [how |-> "raised", value |-> TimedOutException]
    ELSE [how |-> "returned", value |-> TimeoutResult]

\* GetSessionDetails with the exception of a failed call let through.
GetSessionDetailsRaise(ok) ==
    IF ok
    THEN [how |-> "returned",
          value |-> Snapshot(remote_status, remote_messages, remote_pr)]
    ELSE [how |-> "raised", value |-> TransportException]

\* get_session_details: the snapshot, or {} when the call raised.
GetSessionDetails(ok) ==
    [how |-> "returned",
     value |-> IF ok
               THEN Snapshot(remote_status, remote_messages, remote_pr)
               ELSE EmptySnapshot]

\* session.get(...) and response.json() of the asynchronous poller.
ApiGet(ok) ==
    IF ok
    THEN [how |-> "returned",
          value |-> Snapshot(remote_status, remote_messages, remote_pr)]
    ELSE [how |-> "raised", value |-> TransportException]

\* Whether the poller returns the snapshot it holds: a PR URL for the
\* execution poller, or a status of its terminal list.
StopsOn(k, data) ==
    \/ k = "execution" /\ data.pr
    \/ data.status_enum \in TerminalFor(k)

Min(x, y) == IF x < y THEN x ELSE y

\* The pause before the next round, in ticks: time.sleep(10), or
\* asyncio.sleep(min(backoff, 30)), which lasts no less than its whole
\* ticks.
Pause(k, b) == IF k = "api" THEN Min(b, 30) \div 5 ELSE PollInterval

InitRemote ==
    /\ remote_status = "created"
    /\ remote_messages = 0
    /\ remote_pr = FALSE

InitPoll ==
    /\ poll_pc = "idle"
    /\ poll_kind = "session"
    /\ start_time = 0
    /\ timeout = 0
    /\ show_live = FALSE
    /\ last_message_count = 0
    /\ session_data = EmptySnapshot
    /\ poll_wake = 0
    /\ backoff = 1
    /\ poll_result = NoResult
    /\ failures = 0
    /\ poll_gets = 0
    /\ poll_first_terminal = 0
    /\ poll_clean = TRUE
    /\ emitted = <<>>
    /\ poll_methods = {}

\* A poller is called: start_time = time.time(), last_message_count = 0,
\* backoff = 1.
StartPoll(k, to, live) ==
    /\ poll_pc = "idle"
    /\ k = "api" => ~live
    /\ poll_pc' = "check"
    /\ poll_kind' = k
    /\ start_time' = clock
    /\ timeout' = to
    /\ show_live' = live
    /\ poll_gets' = 0
    /\ poll_first_terminal' = 0
    /\ poll_clean' = TRUE
    /\ UNCHANGED <<clock, notPoll, remoteVars, last_message_count,
                   session_data, poll_wake, backoff, poll_result, failures,
                   emitted, poll_methods>>

\* The test of the deadline at the top of a round.
LoopCheck ==
    /\ poll_pc = "check"
    /\ IF DeadlinePassed(poll_kind, clock - start_time, timeout)
       THEN /\ poll_result' = OnDeadline(poll_kind)
            /\ poll_pc' = "done"
       ELSE /\ poll_pc' = "fetch"
            /\ UNCHANGED poll_result
    /\ UNCHANGED <<clock, notPoll, remoteVars, poll_kind, start_time,
                   timeout, show_live, last_message_count, session_data,
                   poll_wake, backoff, failures, pollHistory>>

\* The end of a round that holds snapshot data: return it, or pause.
Decide(data) ==
    IF StopsOn(poll_kind, data)
    THEN /\ poll_result' = [how |-> "returned", value |-> data]
         /\ poll_pc' = "done"
         /\ UNCHANGED <<poll_wake, backoff>>
    ELSE /\ poll_wake' = clock + Pause(poll_kind, backoff)
         /\ backoff' = IF poll_kind = "api" THEN Min(backoff * 2, 32)
                       ELSE backoff
         /\ poll_pc' = "sleeping"
         /\ UNCHANGED poll_result

\* PollRequest as a requests.post.
PollRequestPost == "POST"

\* The request of get_session_details and of the asynchronous poller:
\* requests.get, session.get.
PollRequest == "GET"

\* One more request for the session is made and answered, or fails.
Requested(ok) ==
    /\ poll_gets' = poll_gets + 1
    /\ poll_methods' = poll_methods \cup {PollRequest}
    /\ poll_clean' = (poll_clean /\ ok)
    /\ poll_first_terminal' =
           IF ok /\ poll_first_terminal = 0 /\ remote_status \in SpecTerminal
           THEN poll_gets + 1
           ELSE poll_first_terminal

\* The request of a round: session_data = get_session_details(session_id),
\* or the GET of the asynchronous poller.
Fetch(ok) ==
    /\ poll_pc = "fetch"
    /\ LET got == IF poll_kind = "api" THEN ApiGet(ok)
                  ELSE GetSessionDetails(ok)
       IN  /\ Requested(ok)
           /\ failures' = IF ok THEN 0 ELSE Min(failures + 1, 4)
           /\ IF got.how = "raised"
              THEN /\ poll_result' = got
                   /\ poll_pc' = "done"
                   /\ UNCHANGED <<session_data, poll_wake, backoff>>
              ELSE IF show_live
                   THEN /\ session_data' = got.value
                        /\ poll_pc' = "live"
                        /\ UNCHANGED <<poll_result, poll_wake, backoff>>
                   ELSE /\ Decide(got.value)
                        /\ UNCHANGED session_data
    /\ UNCHANGED <<clock, notPoll, remoteVars, poll_kind, start_time,
                   timeout, show_live, last_message_count, emitted>>

\* for i in range(last_message_count, len(messages)): the messages printed,
\* counted from 1.
Printed(last, n) ==
    IF n > last THEN [i \in 1..(n - last) |-> last + i] ELSE <<>>

\* The count display_live_messages returns, were it len(messages) always.
NewCountLatest(last, messages) == messages

\* What display_live_messages returns: len(messages) when it is above the
\* count passed in, and that count otherwise.
NewCount(last, messages) ==
    IF messages > last THEN messages ELSE last

\* display_live_messages: a request of its own, then the new high-water
\* mark; the round then ends on the snapshot of Fetch.
DisplayLive(ok) ==
    /\ poll_pc = "live"
    /\ LET messages == GetSessionDetails(ok).value.messages
       IN  /\ last_message_count' = NewCount(last_message_count, messages)
           /\ emitted' = emitted \o Printed(last_message_count, messages)
    /\ Requested(ok)
    /\ Decide(session_data)
    /\ session_data' = EmptySnapshot
    /\ UNCHANGED <<clock, notPoll, remoteVars, poll_kind, start_time,
                   timeout, show_live, failures>>

\* The pause between two rounds ends.
WakePoll ==
    /\ poll_pc = "sleeping"
    /\ clock >= poll_wake
    /\ poll_pc' = "check"
    /\ UNCHANGED <<clock, notPoll, remoteVars, poll_kind, start_time,
                   timeout, show_live, last_message_count, session_data,
                   poll_wake, backoff, poll_result, failures, pollHistory>>

\* Time passes while a poller runs: during its sleep, or while a request
\* of get_session_details is under way (the pause of the rate limiter, the
\* pauses between attempts, the network).
PollTick ==
    /\ \/ poll_pc = "sleeping" /\ clock < poll_wake
       \/ poll_pc \in {"fetch", "live"}
    /\ clock - start_time < MaxElapsed
    /\ Tick

NextPoll ==
    \/ PollTick
    \/ \E s \in Statuses : RemoteStatusChange(s)
    \/ \E pr \in BOOLEAN : RemoteMessage(pr)
    \/ \E k \in Pollers, to \in 1..MaxTimeout, live \in BOOLEAN :
           StartPoll(k, to, live)
    \/ LoopCheck
    \/ \E ok \in BOOLEAN : Fetch(ok)
    \/ \E ok \in BOOLEAN : DisplayLive(ok)
    \/ WakePoll

(***************************************************************************)
(* Cancellation: cancel_session of utils/utils.py ("utils") and of         *)
(* core/session_manager.py ("core"), and FileReviewerAgent.cancel          *)
(* ("reviewer").                                                           *)
(***************************************************************************)
Cancellers == {"utils", "core", "reviewer"}

\* max_attempts = 30 in FileReviewerAgent.cancel.
ReviewerMaxAttempts == 30

\* The statuses on which FileReviewerAgent.cancel returns without sending.
ReviewerTerminal == {"completed", "failed", "stopped", "blocked"}

\* send_session_message: True when the POST was accepted, False when it
\* raised a RequestException; any other exception leaves the function.
SendSessionMessage(o) ==
    CASE o = "delivered" -> "True"
      [] o = "refused" -> "False"
      [] o = "throws" -> "raises"

\* AfterSend with the exception leaving the loop.
AfterSendRaise(sent) ==
    CASE sent = "True" -> "return"
      [] sent = "False" -> "sleep"
      [] sent = "raises" -> "raise"

\* The body of the loop after send_session_message: return on success,
\* time.sleep(10) when it returned False and in the except Exception branch.
AfterSend(sent) ==
    CASE sent = "True" -> "return"
      [] sent = "False" -> "sleep"
      [] sent = "raises" -> "sleep"

\* What each cancellation returns: cancel_session a bool, cancel nothing.
Returned(k, b) == IF k = "reviewer" THEN "None" ELSE b

\* The first step of a round of the loop.
RoundStart(k) == IF k = "reviewer" THEN "status" ELSE "send"

InitCancel ==
    /\ cancel_pc = "idle"
    /\ cancel_kind = "utils"
    /\ cancel_attempt = 0
    /\ max_attempts = 0
    /\ cancel_posts = 0
    /\ cancel_delivered = 0
    /\ cancel_threw = FALSE
    /\ cancel_result = "none"
    /\ cancel_first_status = "none"

\* for attempt in range(max_attempts): the next round, or the end of the
\* loop and the return after it.
NextRound(k, m, a) ==
    IF a < m
    THEN /\ cancel_pc' = RoundStart(k)
         /\ UNCHANGED cancel_result
    ELSE /\ cancel_pc' = "done"
         /\ cancel_result' = Returned(k, "False")

\* A cancellation is called on the session.
StartCancel(k, m) ==
    /\ cancel_pc = "idle"
    /\ k = "reviewer" => m = ReviewerMaxAttempts
    /\ cancel_kind' = k
    /\ max_attempts' = m
    /\ cancel_attempt' = 0
    /\ cancel_first_status' = remote_status
    /\ NextRound(k, m, 0)
    /\ UNCHANGED <<clock, keyVars, runVars, rateState, remoteVars, pollVars, extractVars,
                   cacheVars,
                   cancel_posts,
                   cancel_delivered, cancel_threw>>

\* FileReviewerAgent.cancel: the GET of the session and the test of its
\* status; o is "ok" for a 200, "not200" for another answer, "throws" for
\* an exception.
CheckStatus(o) ==
    /\ cancel_pc = "status"
    /\ CASE o = "ok" /\ remote_status \in ReviewerTerminal ->
                /\ cancel_pc' = "done"
                /\ cancel_result' = Returned(cancel_kind, "True")
         [] o = "throws" ->
                /\ cancel_pc' = "sleeping"
                /\ UNCHANGED cancel_result
         [] OTHER ->
                /\ cancel_pc' = "send"
                /\ UNCHANGED cancel_result
    /\ UNCHANGED <<clock, keyVars, runVars, rateState, remoteVars, pollVars, extractVars,
                   cacheVars,
                   cancel_kind,
                   cancel_attempt, max_attempts, cancel_posts,
                   cancel_delivered, cancel_threw, cancel_first_status>>

\* One attempt to post the stop instruction.
CancelSend(o) ==
    /\ cancel_pc = "send"
    /\ cancel_posts' = cancel_posts + 1
    /\ cancel_delivered' = cancel_delivered + (IF o = "delivered" THEN 1 ELSE 0)
    /\ cancel_threw' = (cancel_threw \/ o = "throws")
    /\ LET todo == AfterSend(SendSessionMessage(o))
       IN  CASE todo = "return" ->
                    /\ cancel_pc' = "done"
                    /\ cancel_result' = Returned(cancel_kind, "True")
             [] todo = "sleep" ->
                    /\ cancel_pc' = "sleeping"
                    /\ UNCHANGED cancel_result
             [] todo = "raise" ->
                    /\ cancel_pc' = "done"
                    /\ cancel_result' = "raised"
    /\ UNCHANGED <<clock, keyVars, runVars, rateState, remoteVars, pollVars, extractVars,
                   cacheVars,
                   cancel_kind,
                   cancel_attempt, max_attempts, cancel_first_status>>

\* time.sleep(10) ends and the loop goes on.
EndCancelSleep ==
    /\ cancel_pc = "sleeping"
    /\ cancel_attempt' = cancel_attempt + 1
    /\ NextRound(cancel_kind, max_attempts, cancel_attempt + 1)
    /\ UNCHANGED <<clock, keyVars, runVars, rateState, remoteVars, pollVars, extractVars,
                   cacheVars,
                   cancel_kind,
                   max_attempts, cancel_posts, cancel_delivered, cancel_threw,
                   cancel_first_status>>

NextCancel ==
    \/ \E s \in Statuses : RemoteStatusChange(s)
    \/ \E k \in Cancellers, m \in (0..MaxAttempts) \cup {ReviewerMaxAttempts} :
           StartCancel(k, m)
    \/ \E o \in {"delivered", "refused", "throws"} : CancelSend(o)
    \/ \E o \in {"ok", "not200", "throws"} : CheckStatus(o)
    \/ EndCancelSleep

(***************************************************************************)
(* run_agents_on_issue: cancel_session of utils/utils.py called by the     *)
(* main thread on the session that wait_for_session_completion polls in    *)
(* the thread of agent 3.                                                  *)
(***************************************************************************)
\* time.sleep(10) of the poller goes on: the clock moves while it sleeps.
PollSleepTick ==
    /\ poll_pc = "sleeping"
    /\ clock < poll_wake
    /\ Tick

\* What the polling thread does next; PlanAgent polls with show_live=False.
PollerStep ==
    \/ LoopCheck
    \/ \E ok \in BOOLEAN : Fetch(ok)
    \/ WakePoll

\* What the cancelling thread does next.
CancelStep ==
    \/ \E o \in {"delivered", "refused", "throws"} : CancelSend(o)
    \/ EndCancelSleep

\* The two threads and the service; the requests are answered at once, so
\* the clock moves during the poller's sleep only.
NextRace ==
    \/ PollSleepTick
    \/ \E s \in Statuses : RemoteStatusChange(s)
    \/ \E to \in 1..MaxRaceTimeout : StartPoll("session", to, FALSE)
    \/ PollerStep
    \/ \E m \in 1..MaxRaceAttempts : StartCancel("utils", m)
    \/ CancelStep

(***************************************************************************)
(* Extraction of a JSON document from a session snapshot:                  *)
(* utils.extract_analysis_from_session, core.extract_json_from_session and *)
(* FeasibilityAnalyzerAgent._extract_analysis_data.                        *)
(*                                                                         *)
(* A snapshot holds its messages, oldest first, and its structured_output. *)
(* A message holds its type, the attachment its ATTACHMENT:"..." marker    *)
(* names ("none" without a marker) and what its text holds: nothing of     *)
(* interest, a bare JSON object, or the "Feasibility Score: n" and         *)
(* "Complexity Score: n" lines.  The attachment store gives, for each      *)
(* uuid, the file name in its URL and what a GET of that URL produces.     *)
(***************************************************************************)
Uuids == {"u1", "u2"}

PlanJson == <<"p", "l", "a", "n", "_", "1", ".", "j", "s", "o", "n">>

PlanUpper == <<"p", "l", "a", "n", ".", "J", "S", "O", "N">>

PlanTxt == <<"p", "l", "a", "n", ".", "t", "x", "t">>

NoteJson == <<"n", "o", "t", "e", ".", "j", "s", "o", "n">>

Names == {PlanJson, PlanUpper, PlanTxt, NoteJson}

\* name_filter: None, or the prefix "plan".
NameFilters == {<< >>, <<"p", "l", "a", "n">>}

\* What requests.get of an attachment produces: a JSON document, an HTTP or
\* connection error, bytes that are not UTF-8, or text that is not JSON.
Outcomes == {"ok", "http_error", "bad_utf8", "bad_json"}

Stores == [Uuids -> [name : Names, outcome : Outcomes]]

AgentMessages ==
    {[type |-> "devin_message", attachment |-> u, text |-> "plain"] :
         u \in Uuids}
    \cup {[type |-> "devin_message", attachment |-> "none", text |-> t] :
              t \in {"plain", "json", "scores"}}

UserMessages ==
    {[type |-> "user_message", attachment |-> "u1", text |-> "json"]}

MessageLists ==
    UNION {[1..n -> AgentMessages \cup UserMessages] :
               n \in 0..MaxSessionMessages}

StructuredOutputs ==
    {[present |-> FALSE, attachments |-> << >>]}
    \cup {[present |-> TRUE, attachments |-> s] :
              s \in {<< >>} \cup {<<u>> : u \in Uuids}}

\* The snapshots: those GET /session/{id} returned, and the one a poller
\* returns on timeout.
Sessions ==
    {[error |-> "none", messages |-> m, structured_output |-> so] :
         m \in MessageLists, so \in StructuredOutputs}
    \cup {[error |-> "timeout", messages |-> << >>,
           structured_output |-> [present |-> FALSE, attachments |-> << >>]]}

\* The documents an extraction can hand back.
AttachmentContent(u) == [doc |-> "attachment", uuid |-> u]

StructuredContent == [doc |-> "structured_output"]

MessageJson == [doc |-> "message_json"]

ScoresFromText == [doc |-> "scores", confidence |-> 80]

DefaultAnalysis == [doc |-> "default", confidence |-> 0]

\* str.lower(), on the characters the names are made of.
LowerChar(c) ==
    CASE c = "J" -> "j"
      [] c = "S" -> "s"
      [] c = "O" -> "o"
      [] c = "N" -> "n"
      [] OTHER -> c

Lower(s) == [i \in 1..Len(s) |-> LowerChar(s[i])]

\* str.startswith and str.endswith.
StartsWith(s, p) == Len(p) <= Len(s) /\ SubSeq(s, 1, Len(p)) = p

EndsWith(s, p) ==
    Len(p) <= Len(s) /\ SubSeq(s, Len(s) - Len(p) + 1, Len(s)) = p

\* The two tests of the download loops: a falsy name_filter lets every name
\* through, and the extension is compared in lower case.
IsJsonCandidate(name, name_filter) ==
    /\ (name_filter = << >> \/ StartsWith(name, name_filter))
    /\ EndsWith(Lower(name), <<".", "j", "s", "o", "n">>)

\* utils._parse_attachment_url: the uuid and the name of an attachment URL.
ParseAttachmentUrl(u, store) == [uuid |-> u, name |-> store[u].name]

\* utils.extract_attachment_urls_from_messages: the markers of the
\* devin_message messages, in message order.
RECURSIVE ExtractAttachmentUrlsFromMessages(_, _)
ExtractAttachmentUrlsFromMessages(messages, store) ==
    IF messages = << >> THEN << >>
    ELSE LET msg == Head(messages)
             found == IF msg.type = "devin_message" /\ msg.attachment # "none"
                      THEN <<ParseAttachmentUrl(msg.attachment, store)>>
                      ELSE << >>
         IN found \o ExtractAttachmentUrlsFromMessages(Tail(messages), store)

\* core.extract_attachments_from_messages: the same scan, with the URL
\* parsed in place.
RECURSIVE ExtractAttachmentsFromMessages(_, _)
ExtractAttachmentsFromMessages(messages, store) ==
    IF messages = << >> THEN << >>
    ELSE LET msg == Head(messages)
             found == IF msg.type = "devin_message" /\ msg.attachment # "none"
                      THEN <<[uuid |-> msg.attachment,
                              name |-> store[msg.attachment].name]>>
                      ELSE << >>
         IN found \o ExtractAttachmentsFromMessages(Tail(messages), store)

\* KeepUnseen without the test of seen_uuids.
KeepAll(attachments, seen_uuids) == attachments

\* The seen_uuids filter of extract_attachments_from_session_data.
RECURSIVE KeepUnseen(_, _)
KeepUnseen(attachments, seen_uuids) ==
    IF attachments = << >> THEN << >>
    ELSE LET a == Head(attachments) IN
         IF a.uuid \in seen_uuids
         THEN KeepUnseen(Tail(attachments), seen_uuids)
         ELSE <<a>> \o KeepUnseen(Tail(attachments),
                                  seen_uuids \cup {a.uuid})

\* utils.extract_attachments_from_session_data: the attachments of the
\* messages, then those of structured_output, each uuid once.
ExtractAttachmentsFromSessionData(data, store) ==
    LET fromMessages ==
            KeepUnseen(ExtractAttachmentUrlsFromMessages(data.messages,
                                                         store), {})
        seen == {fromMessages[i].uuid : i \in 1..Len(fromMessages)}
        so == data.structured_output
        listed == [i \in 1..Len(so.attachments) |->
                       ParseAttachmentUrl(so.attachments[i], store)]
    IN IF so.present
       THEN fromMessages \o KeepUnseen(listed, seen)
       ELSE fromMessages

\* utils.download_json_attachments: every candidate is requested; a
\* RequestException or a JSONDecodeError skips the candidate, and the
\* UnicodeDecodeError of content.decode('utf-8') is not caught.
RECURSIVE DownloadJsonAttachments(_, _, _, _, _)
DownloadJsonAttachments(attachments, name_filter, store, files, requests) ==
    IF attachments = << >>
    THEN [raised |-> "none", files |-> files, requests |-> requests]
    ELSE LET a == Head(attachments)
             rest == Tail(attachments)
         IN IF ~IsJsonCandidate(a.name, name_filter)
            THEN DownloadJsonAttachments(rest, name_filter, store, files,
                                         requests)
            ELSE CASE store[a.uuid].outcome = "ok" ->
                        DownloadJsonAttachments(rest, name_filter, store,
                            Append(files, [name |-> a.name, uuid |-> a.uuid,
                                           data |-> AttachmentContent(a.uuid)]),
                            requests + 1)
                   [] store[a.uuid].outcome \in {"http_error", "bad_json"} ->
                        DownloadJsonAttachments(rest, name_filter, store,
                                                files, requests + 1)
                   [] store[a.uuid].outcome = "bad_utf8" ->
                        [raised |-> "UnicodeDecodeError", files |-> files,
                         requests |-> requests + 1]

\* utils.extract_analysis_from_session.
ExtractAnalysisFromSession(result, analysis_type, store) ==
    LET analysis_files ==
            DownloadJsonAttachments(
                ExtractAttachmentsFromSessionData(result, store),
                analysis_type, store, << >>, 0)
    IN IF analysis_files.raised # "none"
       THEN [how |-> "raised", value |-> [error |-> analysis_files.raised],
             requests |-> analysis_files.requests]
       ELSE IF analysis_files.files = << >>
       THEN [how |-> "raised", value |-> [error |-> "ValueError"],
             requests |-> analysis_files.requests]
       ELSE [how |-> "returned", value |-> analysis_files.files[1].data,
             requests |-> analysis_files.requests]

\* core.download_attachment: the parsed document, or the exception of the
\* request or of json.loads re-raised.
DownloadAttachment(uuid, store) ==
    IF store[uuid].outcome = "ok"
    THEN [raised |-> FALSE, data |-> AttachmentContent(uuid)]
    ELSE [raised |-> TRUE, data |-> [error |-> store[uuid].outcome]]

\* The loop of core.extract_json_from_session and what follows it.
RECURSIVE DownloadLoop(_, _, _, _, _, _)
DownloadLoop(attachments, name_filter, single, store, files, requests) ==
    IF attachments = << >>
    THEN IF single /\ files = << >>
         THEN [how |-> "raised", value |-> [error |-> "ValueError"],
               requests |-> requests]
         ELSE [how |-> "returned", value |-> [files |-> files],
               requests |-> requests]
    ELSE LET a == Head(attachments)
             rest == Tail(attachments)
             got == DownloadAttachment(a.uuid, store)
         IN IF ~IsJsonCandidate(a.name, name_filter)
            THEN DownloadLoop(rest, name_filter, single, store, files,
                              requests)
            ELSE IF got.raised
            THEN DownloadLoop(rest, name_filter, single, store, files,
                              requests + 1)
            ELSE IF single
            THEN [how |-> "returned", value |-> got.data,
                  requests |-> requests + 1]
            ELSE DownloadLoop(rest, name_filter, single, store,
                     Append(files, [name |-> a.name, uuid |-> a.uuid,
                                    data |-> got.data]),
                     requests + 1)

\* core.extract_json_from_session.
ExtractJsonFromSession(result, name_filter, return_single, store) ==
    IF result.error # "none"
    THEN [how |-> "returned", value |-> [error |-> result.error],
          requests |-> 0]
    ELSE DownloadLoop(ExtractAttachmentsFromMessages(result.messages, store),
                      name_filter, return_single, store, << >>, 0)

\* The scan of FeasibilityAnalyzerAgent._extract_analysis_data over
\* reversed(messages), messages[1..i] being what is left to visit.
RECURSIVE ScanForScores(_, _)
ScanForScores(messages, i) ==
    IF i = 0 THEN DefaultAnalysis
    ELSE IF messages[i].type = "devin_message" /\ messages[i].text = "scores"
    THEN ScoresFromText
    ELSE ScanForScores(messages, i - 1)

\* FeasibilityAnalyzerAgent._extract_analysis_data.  The snapshot of
\* GET /session/{id} has no "attachments" and no "message_attachments" key,
\* so both result.get(..., []) give the empty list and the text scan decides.
ExtractAnalysisData(result) ==
    [how |-> "returned",
     value |-> ScanForScores(result.messages, Len(result.messages)),
     requests |-> 0]

InitExtract ==
    /\ ext_pc = "idle"
    /\ ext_kind = "none"
    /\ ext_session = [error |-> "none", messages |-> << >>,
                      structured_output |->
                          [present |-> FALSE, attachments |-> << >>]]
    /\ ext_store = [u \in Uuids |-> [name |-> PlanJson, outcome |-> "ok"]]
    /\ ext_filter = << >>
    /\ ext_result = [how |-> "none", value |-> [error |-> "none"],
                     requests |-> 0]

\* A caller runs utils.extract_analysis_from_session on a snapshot.
RunExtractAnalysisFromSession ==
    /\ ext_pc = "idle"
    /\ \E result \in Sessions, analysis_type \in NameFilters,
          store \in Stores :
           /\ ext_session' = result
           /\ ext_store' = store
           /\ ext_filter' = analysis_type
           /\ ext_result' = ExtractAnalysisFromSession(result, analysis_type,
                                                       store)
    /\ ext_pc' = "done"
    /\ ext_kind' = "extract_analysis_from_session"
    /\ UNCHANGED <<clock, keyVars, runVars, rateState, remoteVars, pollVars, cancelVars,
                   cacheVars>>

\* A caller runs core.extract_json_from_session on a snapshot.
RunExtractJsonFromSession ==
    /\ ext_pc = "idle"
    /\ \E result \in Sessions, name_filter \in NameFilters,
          return_single \in BOOLEAN, store \in Stores :
           /\ ext_kind' = IF return_single THEN "extract_json_from_session"
                          ELSE "extract_json_from_session_all"
           /\ ext_session' = result
           /\ ext_store' = store
           /\ ext_filter' = name_filter
           /\ ext_result' = ExtractJsonFromSession(result, name_filter,
                                                   return_single, store)
    /\ ext_pc' = "done"
    /\ UNCHANGED <<clock, keyVars, runVars, rateState, remoteVars, pollVars, cancelVars,
                   cacheVars>>

\* analyze_issue_feasibility runs _extract_analysis_data on a snapshot.
RunExtractAnalysisData ==
    /\ ext_pc = "idle"
    /\ \E result \in Sessions :
           /\ ext_session' = result
           /\ ext_result' = ExtractAnalysisData(result)
    /\ ext_pc' = "done"
    /\ ext_kind' = "_extract_analysis_data"
    /\ UNCHANGED <<clock, keyVars, runVars, rateState, remoteVars, pollVars, cancelVars,
                   cacheVars, ext_store, ext_filter>>

NextExtract ==
    \/ RunExtractAnalysisFromSession
    \/ RunExtractJsonFromSession
    \/ RunExtractAnalysisData

(***************************************************************************)
(* The cached agent paths: IssueFetcherAgent.fetch_and_cache_issues        *)
(* ("issues"), FeasibilityAnalyzerAgent.analyze_issue_feasibility          *)
(* ("feasibility"), PlanAgent.review_files_and_plan ("plan") and           *)
(* ExecutorAgent.execute_and_push ("executor"), run by worker threads over *)
(* one cache directory.                                                    *)
(*                                                                         *)
(* A cache file holds the chunks json.dump wrote to it.  open(path, 'w')   *)
(* creates or truncates the file and gives the writer its own offset; each *)
(* write puts one chunk at the writer's offset.                            *)
(***************************************************************************)
Workers == {"w1", "w2"}

AgentKinds == {"issues", "feasibility", "plan", "executor"}

\* The subjects: a repository for "issues", a repository and an issue
\* number for the others.
Subjects == {"s1", "s2"}

\* The file name each agent builds from its category and subject.
CacheFile(kind, subject) == <<kind, subject>>

CacheFiles == {CacheFile(k, s) : k \in AgentKinds \ {"executor"},
                                s \in Subjects}

\* The normalised issue list of the issue fetcher.
IssuesDocument == [doc |-> "issues"]

\* What execute_and_push returns; it is never stored.
ExecutionReport == [doc |-> "execution"]

\* The number of chunks json.dump writes for a document.
Size(d) ==
    IF d \in {DefaultAnalysis, AttachmentContent("u1"), IssuesDocument}
    THEN 1 ELSE 2

\* json.dump(d, f, indent=2): the text of d, chunk by chunk.
Dump(d) == [i \in 1..Size(d) |-> [of |-> d, part |-> i]]

CachedDocuments ==
    {DefaultAnalysis, ScoresFromText, IssuesDocument}
    \cup {AttachmentContent(u) : u \in Uuids}

\* json.load(f): the document whose text the file holds, or a
\* JSONDecodeError when the file holds no complete document.
Load(content) ==
    IF \E d \in CachedDocuments : Dump(d) = content
    THEN [how |-> "returned",
          payload |-> CHOOSE d \in CachedDocuments : Dump(d) = content]
    ELSE [how |-> "raised", payload |-> [error |-> "JSONDecodeError"]]

\* f.write(chunk) at offset off (counted from 0) of a file holding content.
WriteAt(content, off, chunk) ==
    [i \in 1..(IF off + 1 > Len(content) THEN off + 1 ELSE Len(content)) |->
        IF i = off + 1 THEN chunk
        ELSE IF i <= Len(content) THEN content[i]
        ELSE [of |-> [doc |-> "hole"], part |-> 0]]

\* AfterExists with the entry ignored.
AfterExistsAlwaysCreate(exists) == "create"

\* The branch after os.path.exists(cache_file).
AfterExists(exists) == IF exists THEN "load" ELSE "create"

\* The snapshots wait_for_session_completion hands to the feasibility
\* analyzer: {"error": "timeout"}, one without score lines, one with them.
FeasibilityResults ==
    {[error |-> "timeout", messages |-> << >>,
      structured_output |-> [present |-> FALSE, attachments |-> << >>]],
     [error |-> "none", messages |-> << >>,
      structured_output |-> [present |-> FALSE, attachments |-> << >>]],
     [error |-> "none",
      messages |-> <<[type |-> "devin_message", attachment |-> "none",
                      text |-> "scores"]>>,
      structured_output |-> [present |-> FALSE, attachments |-> << >>]]}

\* The attachments the plan agent downloads from.
PlanStore == [u \in Uuids |-> [name |-> PlanJson, outcome |-> "ok"]]

\* result.get("message_attachments", []) of the plan agent.
PlanAttachments ==
    {<< >>} \cup {<<[uuid |-> u, name |-> PlanJson]>> : u \in Uuids}

\* What the agent does once its session has ended: what it extracted, and
\* whether it stores the document, returns without storing, or raises.
AgentOutcomes(kind) ==
    CASE kind = "feasibility" ->
             {[next |-> "open", doc |-> ExtractAnalysisData(r).value] :
                  r \in FeasibilityResults}
      [] kind = "plan" ->
             {LET plan_files ==
                      DownloadJsonAttachments(a, <<"p", "l", "a", "n">>,
                                              PlanStore, << >>, 0)
              IN IF plan_files.files = << >>
                 THEN [next |-> "raise", doc |-> [error |-> "ValueError"]]
                 ELSE [next |-> "open", doc |-> plan_files.files[1].data] :
                  a \in PlanAttachments}
      [] kind = "issues" ->
             {[next |-> "open", doc |-> IssuesDocument],
              [next |-> "return", doc |-> [doc |-> "empty list"]]}
      [] kind = "executor" ->
             {[next |-> "return", doc |-> ExecutionReport]}

NoDocument == [doc |-> "none"]

InitCache ==
    /\ cache_files = [p \in CacheFiles |->
                          [exists |-> FALSE, content |-> << >>]]
    /\ a_pc = [w \in Workers |-> "idle"]
    /\ a_kind = [w \in Workers |-> "issues"]
    /\ a_subject = [w \in Workers |-> "s1"]
    /\ a_doc = [w \in Workers |-> NoDocument]
    /\ a_off = [w \in Workers |-> 0]
    /\ a_checked = [w \in Workers |-> "no"]
    /\ a_sessions = [w \in Workers |-> 0]
    /\ a_done = [w \in Workers |-> << >>]
    /\ agent_calls = 0

\* The record of a finished call.
Finished(w, how, payload) ==
    [kind |-> a_kind[w], subject |-> a_subject[w], how |-> how,
     payload |-> payload, checked |-> a_checked[w],
     sessions |-> a_sessions[w], wrote |-> (a_doc[w] # NoDocument),
     present |-> IF a_kind[w] = "executor" THEN FALSE
                 ELSE cache_files[CacheFile(a_kind[w], a_subject[w])].exists]

\* The call ends: it returns payload or raises it.
Finish(w, how, payload) ==
    /\ a_pc' = [a_pc EXCEPT ![w] = "idle"]
    /\ a_done' = [a_done EXCEPT ![w] = Append(@, Finished(w, how, payload))]

\* A worker calls an agent method.  The executor goes straight to
\* create_devin_session.
AgentStart(w, kind, subject) ==
    /\ a_pc[w] = "idle"
    /\ agent_calls < MaxAgentCalls
    /\ agent_calls' = agent_calls + 1
    /\ a_pc' = [a_pc EXCEPT ![w] = IF kind = "executor" THEN "create"
                                   ELSE "check"]
    /\ a_kind' = [a_kind EXCEPT ![w] = kind]
    /\ a_subject' = [a_subject EXCEPT ![w] = subject]
    /\ a_doc' = [a_doc EXCEPT ![w] = NoDocument]
    /\ a_off' = [a_off EXCEPT ![w] = 0]
    /\ a_checked' = [a_checked EXCEPT ![w] = "no"]
    /\ a_sessions' = [a_sessions EXCEPT ![w] = 0]
    /\ UNCHANGED <<cache_files, a_done>>
    /\ UNCHANGED <<clock, keyVars, runVars, rateState, remoteVars, pollVars, cancelVars,
                   extractVars>>

\* if os.path.exists(cache_file)
AgentExists(w) ==
    /\ a_pc[w] = "check"
    /\ LET exists == cache_files[CacheFile(a_kind[w], a_subject[w])].exists IN
        /\ a_pc' = [a_pc EXCEPT ![w] = AfterExists(exists)]
        /\ a_checked' = [a_checked EXCEPT ![w] =
                             IF exists THEN "present" ELSE "absent"]
    /\ UNCHANGED <<cache_files, a_kind, a_subject, a_doc, a_off, a_sessions,
                   a_done, agent_calls>>
    /\ UNCHANGED <<clock, keyVars, runVars, rateState, remoteVars, pollVars, cancelVars,
                   extractVars>>

\* with open(cache_file, 'r') as f: return json.load(f)
AgentLoad(w) ==
    /\ a_pc[w] = "load"
    /\ LET got == Load(cache_files[CacheFile(a_kind[w], a_subject[w])].content)
       IN Finish(w, got.how, got.payload)
    /\ UNCHANGED <<cache_files, a_kind, a_subject, a_doc, a_off, a_checked,
                   a_sessions, agent_calls>>
    /\ UNCHANGED <<clock, keyVars, runVars, rateState, remoteVars, pollVars, cancelVars,
                   extractVars>>

\* create_devin_session(prompt, repo_url)
AgentCreate(w) ==
    /\ a_pc[w] = "create"
    /\ a_pc' = [a_pc EXCEPT ![w] = "wait"]
    /\ a_sessions' = [a_sessions EXCEPT ![w] = @ + 1]
    /\ UNCHANGED <<cache_files, a_kind, a_subject, a_doc, a_off, a_checked,
                   a_done, agent_calls>>
    /\ UNCHANGED <<clock, keyVars, runVars, rateState, remoteVars, pollVars, cancelVars,
                   extractVars>>

\* The wait for the session and the extraction from its result.
AgentExtract(w) ==
    /\ a_pc[w] = "wait"
    /\ \E o \in AgentOutcomes(a_kind[w]) :
           IF o.next = "open"
           THEN /\ a_pc' = [a_pc EXCEPT ![w] = "open"]
                /\ a_doc' = [a_doc EXCEPT ![w] = o.doc]
                /\ UNCHANGED a_done
           ELSE /\ Finish(w, IF o.next = "raise" THEN "raised"
                             ELSE "returned", o.doc)
                /\ UNCHANGED a_doc
    /\ UNCHANGED <<cache_files, a_kind, a_subject, a_off, a_checked, a_sessions,
                   agent_calls>>
    /\ UNCHANGED <<clock, keyVars, runVars, rateState, remoteVars, pollVars, cancelVars,
                   extractVars>>

\* open(cache_file, 'w')
AgentOpen(w) ==
    /\ a_pc[w] = "open"
    /\ LET p == CacheFile(a_kind[w], a_subject[w]) IN
       cache_files' = [cache_files EXCEPT
                           ![p] = [exists |-> TRUE, content |-> << >>]]
    /\ a_off' = [a_off EXCEPT ![w] = 0]
    /\ a_pc' = [a_pc EXCEPT ![w] = "write"]
    /\ UNCHANGED <<a_kind, a_subject, a_doc, a_checked, a_sessions, a_done,
                   agent_calls>>
    /\ UNCHANGED <<clock, keyVars, runVars, rateState, remoteVars, pollVars, cancelVars,
                   extractVars>>

\* json.dump(data, f, indent=2): the next chunk reaches the file.
AgentWrite(w) ==
    /\ a_pc[w] = "write"
    /\ LET p == CacheFile(a_kind[w], a_subject[w]) IN
       cache_files' = [cache_files EXCEPT ![p].content =
                     WriteAt(@, a_off[w], Dump(a_doc[w])[a_off[w] + 1])]
    /\ a_off' = [a_off EXCEPT ![w] = @ + 1]
    /\ a_pc' = [a_pc EXCEPT ![w] = IF a_off[w] + 1 = Size(a_doc[w])
                                   THEN "close" ELSE "write"]
    /\ UNCHANGED <<a_kind, a_subject, a_doc, a_checked, a_sessions, a_done,
                   agent_calls>>
    /\ UNCHANGED <<clock, keyVars, runVars, rateState, remoteVars, pollVars, cancelVars,
                   extractVars>>

\* The file is closed and the agent returns the document it stored.
AgentReturn(w) ==
    /\ a_pc[w] = "close"
    /\ Finish(w, "returned", a_doc[w])
    /\ UNCHANGED <<cache_files, a_kind, a_subject, a_doc, a_off, a_checked,
                   a_sessions, agent_calls>>
    /\ UNCHANGED <<clock, keyVars, runVars, rateState, remoteVars, pollVars, cancelVars,
                   extractVars>>

AgentStep(w) ==
    \/ \E kind \in AgentKinds, subject \in Subjects :
           AgentStart(w, kind, subject)
    \/ AgentExists(w)
    \/ AgentLoad(w)
    \/ AgentCreate(w)
    \/ AgentExtract(w)
    \/ AgentOpen(w)
    \/ AgentWrite(w)
    \/ AgentReturn(w)

\* Worker threads running agent calls concurrently.
NextCache == \E w \in Workers : AgentStep(w)

\* One thread making its calls one after the other.
NextCacheSequential == AgentStep("w1")

(***************************************************************************)
(* scripts/run_agents.py, run_agents_on_issue: Agent 2 and Agent 3 each in *)
(* a thread of its own, and the loop that takes their results from         *)
(* result_queue.                                                           *)
(***************************************************************************)
Agents == {"agent2", "agent3"}

InitRun ==
    /\ run_pc = "idle"
    /\ thread_pc = [a \in Agents |-> "unstarted"]
    /\ result_queue = <<>>
    /\ agent_completed = [a \in Agents |-> FALSE]
    /\ current_session_id = "none"
    /\ run_reports = {}
    /\ put_kind = [a \in Agents |-> "none"]
    /\ agent3_sessions = 0
    /\ stop_sent = FALSE

\* thread2.start(); time.sleep(1); thread3.start()
StartThread(a) ==
    /\ \/ a = "agent2" /\ run_pc = "idle" /\ run_pc' = "started2"
       \/ a = "agent3" /\ run_pc = "started2" /\ run_pc' = "get"
    /\ thread_pc' = [thread_pc EXCEPT ![a] = "running"]
    /\ UNCHANGED <<result_queue, agent_completed, current_session_id,
                   run_reports, put_kind, agent3_sessions, stop_sent>>
    /\ UNCHANGED <<clock, keyVars, rateState, remoteVars, pollVars, cancelVars,
                   extractVars, cacheVars>>

\* review_files_and_plan, the right-hand side of
\* self._current_session_id = create_devin_session(prompt, repo_url): the
\* service has created the session.
Agent3Create ==
    /\ thread_pc["agent3"] = "running"
    /\ agent3_sessions = 0
    /\ agent3_sessions' = 1
    /\ thread_pc' = [thread_pc EXCEPT !["agent3"] = "created"]
    /\ UNCHANGED <<run_pc, result_queue, agent_completed, current_session_id,
                   run_reports, put_kind, stop_sent>>
    /\ UNCHANGED <<clock, keyVars, rateState, remoteVars, pollVars, cancelVars,
                   extractVars, cacheVars>>

\* The assignment to self._current_session_id; the wait for the session
\* follows.
Agent3Assign ==
    /\ thread_pc["agent3"] = "created"
    /\ current_session_id' = "set"
    /\ thread_pc' = [thread_pc EXCEPT !["agent3"] = "polling"]
    /\ UNCHANGED <<run_pc, result_queue, agent_completed, run_reports,
                   put_kind, agent3_sessions, stop_sent>>
    /\ UNCHANGED <<clock, keyVars, rateState, remoteVars, pollVars, cancelVars,
                   extractVars, cacheVars>>

\* run_agent_2 and run_agent_3: the agent's method returned (kind "result")
\* or raised (kind "error"), and the thread puts its item on the queue.
\* Agent 3 gets here from its cache or a failure before any session, or
\* after the wait for its session.
AgentPut(a, kind) ==
    /\ thread_pc[a] \in {"running", "polling"}
    /\ result_queue' = Append(result_queue, [agent |-> a, kind |-> kind])
    /\ put_kind' = [put_kind EXCEPT ![a] = kind]
    /\ thread_pc' = [thread_pc EXCEPT ![a] = "exiting"]
    /\ UNCHANGED <<run_pc, agent_completed, current_session_id, run_reports,
                   agent3_sessions, stop_sent>>
    /\ UNCHANGED <<clock, keyVars, rateState, remoteVars, pollVars, cancelVars,
                   extractVars, cacheVars>>

\* The thread's target function returns: is_alive() is False from now on.
ThreadExit(a) ==
    /\ thread_pc[a] = "exiting"
    /\ thread_pc' = [thread_pc EXCEPT ![a] = "dead"]
    /\ UNCHANGED <<run_pc, result_queue, agent_completed, current_session_id,
                   run_reports, put_kind, agent3_sessions, stop_sent>>
    /\ UNCHANGED <<clock, keyVars, rateState, remoteVars, pollVars, cancelVars,
                   extractVars, cacheVars>>

\* result_queue.get(timeout=1) returns an item, and the body of the try
\* block handles it; the loop ends when both agents have completed.
RunGet ==
    /\ run_pc = "get"
    /\ result_queue # <<>>
    /\ LET item == Head(result_queue)
           done == [agent_completed EXCEPT ![item.agent] = TRUE]
       IN  /\ result_queue' = Tail(result_queue)
           /\ IF item.kind = "error"
              THEN /\ run_reports' = run_reports \cup
                           {[agent |-> item.agent, error |-> TRUE]}
                   /\ stop_sent' = ( \/ stop_sent
                                     \/ /\ item.agent = "agent2"
                                        /\ current_session_id # "none" )
                   /\ run_pc' = "done"
                   /\ UNCHANGED agent_completed
              ELSE /\ agent_completed' = done
                   /\ run_pc' = IF \A a \in Agents : done[a] THEN "done"
                                ELSE "get"
                   /\ UNCHANGED <<run_reports, stop_sent>>
    /\ UNCHANGED <<thread_pc, current_session_id, put_kind, agent3_sessions>>
    /\ UNCHANGED <<clock, keyVars, rateState, remoteVars, pollVars, cancelVars,
                   extractVars, cacheVars>>

\* result_queue.get(timeout=1) raises Empty: nothing was put for a second.
RunGetTimeout ==
    /\ run_pc = "get"
    /\ result_queue = <<>>
    /\ run_pc' = "except"
    /\ UNCHANGED <<thread_pc, result_queue, agent_completed,
                   current_session_id, run_reports, put_kind,
                   agent3_sessions, stop_sent>>
    /\ UNCHANGED <<clock, keyVars, rateState, remoteVars, pollVars, cancelVars,
                   extractVars, cacheVars>>

\* The except branch: the two tests of is_alive(), thread2 first.
RunExcept ==
    /\ run_pc = "except"
    /\ LET gone(a) == thread_pc[a] = "dead" /\ ~agent_completed[a]
       IN  IF gone("agent2")
           THEN /\ run_reports' = run_reports \cup
                        {[agent |-> "agent2", error |-> FALSE]}
                /\ run_pc' = "done"
           ELSE IF gone("agent3")
                THEN /\ run_reports' = run_reports \cup
                             {[agent |-> "agent3", error |-> FALSE]}
                     /\ run_pc' = "done"
                ELSE /\ run_pc' = "get"
                     /\ UNCHANGED run_reports
    /\ UNCHANGED <<thread_pc, result_queue, agent_completed,
                   current_session_id, put_kind, agent3_sessions, stop_sent>>
    /\ UNCHANGED <<clock, keyVars, rateState, remoteVars, pollVars, cancelVars,
                   extractVars, cacheVars>>

NextRun ==
    \/ \E a \in Agents : StartThread(a)
    \/ Agent3Create
    \/ Agent3Assign
    \/ \E a \in Agents, kind \in {"result", "error"} : AgentPut(a, kind)
    \/ \E a \in Agents : ThreadExit(a)
    \/ RunGet
    \/ RunGetTimeout
    \/ RunExcept

(***************************************************************************)
(* utils/utils.py, get_cache_key and get_cache_file_path.  A string is the *)
(* sequence of its characters; the fixed words "https://github.com/",      *)
(* "cache/", ".json" and the category names, which hold neither "/" nor    *)
(* "_", stand as one element each.                                         *)
(***************************************************************************)
\* The longest owner or repository name.
MaxNameLen == 3

\* Owner and repository names: letters and, inside the name, "_", which
\* repository names and the owner names of managed accounts may hold.
RepoNames ==
    {s \in UNION {[1..n -> {"a", "_"}] : n \in 1..MaxNameLen} :
        s[1] # "_" /\ s[Len(s)] # "_"}

Categories == {"feasibility", "plan"}

IssueNumbers == {<<"1">>, <<"2">>}

\* A subject: the category, the repository and the issue.
KeySubjects ==
    [category : Categories, owner : RepoNames, name : RepoNames,
     issue : IssueNumbers]

\* The URL of a repository.
RepoUrl(owner, name) == <<"https://github.com/">> \o owner \o <<"/">> \o name

\* s.replace(old, new) for old of one element.
RECURSIVE Replace(_, _, _)
Replace(s, old, new) ==
    IF s = <<>> THEN <<>>
    ELSE (IF Head(s) = old THEN new ELSE <<Head(s)>>)
         \o Replace(Tail(s), old, new)

\* repo_url.replace("https://github.com/", "").replace("/", "_")
GetCacheKey(repo_url) ==
    Replace(Replace(repo_url, "https://github.com/", <<>>), "/", <<"_">>)

\* os.path.join(cache_dir, f"{analysis_type}_{repo_key}_{issue_number}.json")
GetCacheFilePath(cache_dir, repo_url, analysis_type, issue_number) ==
    LET repo_key == GetCacheKey(repo_url)
    IN  <<cache_dir>> \o <<analysis_type, "_">> \o repo_key \o <<"_">>
            \o issue_number \o <<".json">>

InitKeys ==
    /\ key_subjects = <<>>
    /\ key_paths = <<>>

\* get_cache_file_path is called for one subject, then for another.
ComputePaths(s, t) ==
    /\ key_subjects = <<>>
    /\ key_subjects' = <<s, t>>
    /\ key_paths' =
           <<GetCacheFilePath("cache/", RepoUrl(s.owner, s.name), s.category,
                              s.issue),
             GetCacheFilePath("cache/", RepoUrl(t.owner, t.name), t.category,
                              t.issue)>>
    /\ UNCHANGED <<clock, rateState, remoteVars, pollVars, cancelVars,
                   extractVars, cacheVars, runVars>>

vars == <<clock, rateState, remoteVars, pollVars, cancelVars, extractVars,
          cacheVars, runVars, keyVars>>

Init == InitRate /\ InitRemote /\ InitPoll /\ InitCancel /\ InitExtract
        /\ InitCache
        /\ InitRun
        /\ InitKeys

SpecRate == Init /\ [][NextRate]_vars

\* A runnable thread runs, and time does not stand still.
FairRate ==
    /\ WF_vars(SleepTick)
    /\ \A t \in Threads : WF_vars(ThreadStep(t))

SpecRateFair == Init /\ [][NextRateFair]_vars /\ FairRate

SpecRetry == Init /\ [][NextRetry]_vars

\* A runnable worker runs, and time does not stand still.
FairNested ==
    /\ WF_vars(SleepTick)
    /\ \A t \in Threads : WF_vars(WorkerStep(t))

SpecNested == Init /\ [][NextNested]_vars /\ FairNested

SpecPoll == Init /\ [][NextPoll]_vars

\* Both threads run when they can, and the poller's sleep comes to its end.
FairRace ==
    /\ WF_vars(PollSleepTick)
    /\ WF_vars(PollerStep)
    /\ WF_vars(CancelStep)

SpecRace == Init /\ [][NextRace]_vars /\ FairRace

SpecCancel == Init /\ [][NextCancel]_vars

SpecExtract == Init /\ [][NextExtract]_vars

SpecCache == Init /\ [][NextCache]_vars

SpecRun == Init /\ [][NextRun]_vars

SpecKeys ==
    Init /\ [][\E s, t \in KeySubjects : ComputePaths(s, t)]_vars

SpecCacheSequential == Init /\ [][NextCacheSequential]_vars

(***************************************************************************)
(* C1: any two admissions recorded under devin_api_lock are at least       *)
(* MIN_SECONDS_BETWEEN_CALLS apart, so no window of that length holds more *)
(* than one admitted call.                                                 *)
(***************************************************************************)
AdmissionsSpaced ==
    \A i, j \in 1..Len(admitted) :
        i < j => admitted[j] - admitted[i] >= MIN_SECONDS_BETWEEN_CALLS

\* Two threads were admitted, the second after sleeping under the lock.
AdmissionsSpacedWitness ==
    /\ Len(admitted) >= 2
    /\ \E t \in Threads : wake[t] > 0 /\ pc[t] = "call" /\ attempt[t] = 0
    /\ admitted[2] - admitted[1] = MIN_SECONDS_BETWEEN_CALLS

(***************************************************************************)
(* C2: wait_for_session_completion returns the snapshot at the first poll  *)
(* that observes a terminal status (blocked, stopped, completed, failed or *)
(* expired), and pauses for another poll only when the status it observed  *)
(* is created or working.                                                  *)
(***************************************************************************)
TerminalStatusEndsPoll ==
    [][(poll_kind \in {"session", "api"}) =>
        /\ (poll_pc = "fetch" /\ poll_pc' # "fetch" /\ ~show_live
                /\ failures' = 0 /\ remote_status \in SpecTerminal)
            => /\ poll_pc' = "done"
               /\ poll_result' =
                      [how |-> "returned",
                       value |-> Snapshot(remote_status, remote_messages,
                                          remote_pr)]
        /\ (poll_pc = "live" /\ poll_pc' # "live"
                /\ session_data.status_enum \in SpecTerminal)
            => /\ poll_pc' = "done"
               /\ poll_result' = [how |-> "returned", value |-> session_data]
        /\ (poll_pc = "fetch" /\ failures' = 0 /\ poll_pc' = "sleeping")
            => remote_status \in {"created", "working"} ]_vars

(***************************************************************************)
(* C3: when the deadline passes in a core poller, the poller returns       *)
(* {"error": "timeout"} and does not raise, and that result is no snapshot *)
(* with a terminal status; a core poller never ends by raising.            *)
(***************************************************************************)
TimeoutIsReturned ==
    [][(poll_kind \in CorePollers) =>
        /\ (poll_pc = "check" /\ poll_pc' # "check"
                /\ clock - start_time >= timeout)
            => /\ poll_pc' = "done"
               /\ poll_result'.how = "returned"
               /\ poll_result'.value = TimeoutResult
               /\ \A st \in SpecTerminal, n \in 0..MaxMessages,
                     pr \in BOOLEAN :
                      poll_result'.value # Snapshot(st, n, pr)
        /\ poll_pc' = "done" => poll_result'.how = "returned" ]_vars

\* A core poller gave up on a session that was still running.
TimeoutIsReturnedWitness ==
    /\ poll_pc = "done"
    /\ poll_kind \in CorePollers
    /\ remote_status \in {"created", "working"}
    /\ clock - start_time >= timeout
    /\ poll_result = [how |-> "returned", value |-> TimeoutResult]

(***************************************************************************)
(* C4: a failed getSessionState poll does not end                          *)
(* wait_for_session_completion, and when the poll after it observes a      *)
(* terminal status the poller returns that snapshot.                       *)
(***************************************************************************)
FailedPollIsRetried ==
    [][(poll_kind = "session") =>
        /\ (poll_pc = "fetch" /\ poll_pc' # "fetch" /\ failures' > 0)
            => /\ poll_pc' \in {"live", "sleeping"}
               /\ poll_result' = NoResult
        /\ (poll_pc = "fetch" /\ poll_pc' # "fetch" /\ ~show_live
                /\ failures > 0 /\ failures' = 0
                /\ remote_status \in SpecTerminal)
            => /\ poll_pc' = "done"
               /\ poll_result' =
                      [how |-> "returned",
                       value |-> Snapshot(remote_status, remote_messages,
                                          remote_pr)] ]_vars

(***************************************************************************)
(* C5: once getSessionState has failed on more than 3 consecutive polls,   *)
(* the core poller has stopped with a PollingUnreachable result, the       *)
(* "api_errors" result that run_agents_on_issue reads the session id from. *)
(***************************************************************************)
UnreachableAfterFailures ==
    (poll_kind \in CorePollers /\ failures > 3)
        => /\ poll_pc = "done"
           /\ poll_result.value.error = "api_errors"

(***************************************************************************)
(* C6: a cancellation of a session that is terminal when it is called      *)
(* (max_attempts >= 1) posts no stop message and returns True.             *)
(***************************************************************************)
CancelOfTerminalIsNoOp ==
    (cancel_pc = "done" /\ max_attempts >= 1
         /\ cancel_first_status \in SpecTerminal)
        => /\ cancel_posts = 0
           /\ cancel_result = "True"

(***************************************************************************)
(* C7: cancel_session makes at most max_attempts postMessage attempts,     *)
(* returns True right after the first one that is delivered and posts      *)
(* nothing after it, returns False when all max_attempts attempts failed,  *)
(* and never raises, whether an attempt returned False or raised.          *)
(***************************************************************************)
CancelSessionBounded ==
    cancel_kind \in {"utils", "core"} =>
        /\ cancel_posts <= max_attempts
        /\ cancel_result # "raised"
        /\ cancel_delivered <= 1
        /\ cancel_delivered = 1 => (cancel_pc = "done" /\ cancel_result = "True")
        /\ cancel_pc = "done" =>
            /\ cancel_result \in {"True", "False"}
            /\ cancel_result = "True" => cancel_delivered = 1
            /\ cancel_result = "False" =>
                   (cancel_delivered = 0 /\ cancel_posts = max_attempts)

\* cancel_session returned True on its last allowed attempt, after one
\* attempt that raised.
CancelSessionBoundedWitness ==
    /\ cancel_kind \in {"utils", "core"}
    /\ cancel_pc = "done"
    /\ cancel_result = "True"
    /\ cancel_threw
    /\ cancel_posts = max_attempts
    /\ cancel_posts >= 2

\* The attachments of the agent's messages, in message order, that pass the
\* name tests and whose download, decoding and parse all succeed.
RECURSIVE GoodCandidates(_, _, _)
GoodCandidates(attachments, name_filter, store) ==
    IF attachments = << >> THEN << >>
    ELSE LET a == Head(attachments)
             good == /\ IsJsonCandidate(a.name, name_filter)
                     /\ store[a.uuid].outcome = "ok"
         IN (IF good THEN <<a.uuid>> ELSE << >>)
            \o GoodCandidates(Tail(attachments), name_filter, store)

ExtGood ==
    GoodCandidates(ExtractAttachmentUrlsFromMessages(ext_session.messages,
                                                     ext_store),
                   ext_filter, ext_store)

(***************************************************************************)
(* C8: when the snapshot carries a structured result and also a matching   *)
(* attachment that downloads and parses, extract_analysis_from_session     *)
(* returns the structured result's content, not the attachment's.          *)
(***************************************************************************)
StructuredResultWins ==
    ( /\ ext_pc = "done"
      /\ ext_kind = "extract_analysis_from_session"
      /\ ext_session.structured_output.present
      /\ ExtGood # << >> )
    => ( /\ ext_result.how = "returned"
         /\ ext_result.value = StructuredContent )

(***************************************************************************)
(* C9: with no structured result, extraction with a name filter returns    *)
(* the content of the first attachment, in candidate order, whose name     *)
(* passes the filter and the .json test and whose download, decoding and   *)
(* parse succeed; a candidate that fails to download, decode or parse is   *)
(* skipped and the extraction never ends with that candidate's exception.  *)
(***************************************************************************)
FirstGoodCandidateReturned ==
    ( /\ ext_pc = "done"
      /\ ext_kind \in {"extract_analysis_from_session",
                       "extract_json_from_session"}
      /\ ext_session.error = "none"
      /\ ~ext_session.structured_output.present )
    => ( /\ ExtGood # << >> =>
                ( /\ ext_result.how = "returned"
                  /\ ext_result.value = AttachmentContent(ExtGood[1]) )
         /\ ext_result.how = "raised" =>
                ext_result.value.error = "ValueError" )

(***************************************************************************)
(* C10: when the snapshot names no attachment anywhere, has no structured  *)
(* result, and one of the agent's messages holds a bare JSON object,       *)
(* extraction returns that object, parsed, and makes no request.           *)
(***************************************************************************)
FreeTextJsonReturned ==
    ( /\ ext_pc = "done"
      /\ ext_kind \in {"extract_analysis_from_session",
                       "_extract_analysis_data"}
      /\ ~ext_session.structured_output.present
      /\ \A i \in 1..Len(ext_session.messages) :
             ext_session.messages[i].attachment = "none"
      /\ \E i \in 1..Len(ext_session.messages) :
             /\ ext_session.messages[i].type = "devin_message"
             /\ ext_session.messages[i].text = "json" )
    => ( /\ ext_result.how = "returned"
         /\ ext_result.value = MessageJson
         /\ ext_result.requests = 0 )

(***************************************************************************)
(* C11: when the snapshot has no structured result, no attachment that     *)
(* passes the name tests and downloads and parses, and no agent message    *)
(* holding a JSON object or score lines, every extractor ends by raising:  *)
(* none returns an empty list, an error document or a default document.    *)
(***************************************************************************)
NothingFoundIsAnError ==
    ( /\ ext_pc = "done"
      /\ ~ext_session.structured_output.present
      /\ ExtGood = << >>
      /\ \A i \in 1..Len(ext_session.messages) :
             ext_session.messages[i].type = "devin_message"
                 => ext_session.messages[i].text = "plain" )
    => ext_result.how = "raised"

(***************************************************************************)
(* C12: when one thread calls analyze_issue_feasibility or                 *)
(* review_files_and_plan twice for the same repository and issue, and the  *)
(* first call returned, the second call creates no session and returns a   *)
(* payload equal to the first call's.                                      *)
(***************************************************************************)
SecondCallIsServedFromCache ==
    \A i, j \in 1..Len(a_done["w1"]) :
        LET first == a_done["w1"][i]
            second == a_done["w1"][j]
        IN ( /\ i < j
             /\ first.kind \in {"feasibility", "plan"}
             /\ second.kind = first.kind
             /\ second.subject = first.subject
             /\ first.how = "returned" )
           => ( /\ second.sessions = 0
                /\ second.how = "returned"
                /\ second.payload = first.payload )

\* The plan agent created a session and stored a two-chunk plan on its
\* first call, and its second call for the same issue was a cache hit.
SecondCallIsServedFromCacheWitness ==
    /\ Len(a_done["w1"]) >= 2
    /\ a_done["w1"][1].kind = "plan"
    /\ a_done["w1"][2].kind = "plan"
    /\ a_done["w1"][1].subject = a_done["w1"][2].subject
    /\ a_done["w1"][1].sessions = 1
    /\ a_done["w1"][1].payload = AttachmentContent("u2")
    /\ a_done["w1"][2].checked = "present"
    /\ a_done["w1"][2].sessions = 0
    /\ a_done["w1"][2].payload = AttachmentContent("u2")

(***************************************************************************)
(* C13: a call that has created a session (issue fetcher, feasibility      *)
(* analyzer, plan agent or executor) read its cache entry first and found  *)
(* it absent; and a call that extracted its document from a session has    *)
(* the entry for its key present when it returns.                          *)
(***************************************************************************)
CacheReadBeforeAndWrittenAfter ==
    \A w \in Workers :
        /\ a_sessions[w] > 0 => a_checked[w] = "absent"
        /\ \A i \in 1..Len(a_done[w]) :
               ( /\ a_done[w][i].sessions > 0
                 /\ a_done[w][i].how = "returned"
                 /\ a_done[w][i].payload # [doc |-> "empty list"] )
               => a_done[w][i].present

(***************************************************************************)
(* C14: whenever no thread has a cache file open for writing, the file     *)
(* holds one complete document, and it is a document that a finished call  *)
(* wrote to that key: writes to distinct keys lose nothing, and two writes *)
(* to the same key leave one of the two documents, never a mixture or a    *)
(* truncated document.                                                     *)
(***************************************************************************)
CacheFileIsOneWrittenDocument ==
    \A p \in CacheFiles :
        ( /\ cache_files[p].exists
          /\ \A w \in Workers :
                 CacheFile(a_kind[w], a_subject[w]) = p
                     => a_pc[w] \notin {"write", "close"} )
        => ( /\ Load(cache_files[p].content).how = "returned"
             /\ \E w \in Workers : \E i \in 1..Len(a_done[w]) :
                    /\ a_done[w][i].wrote
                    /\ CacheFile(a_done[w][i].kind, a_done[w][i].subject) = p
                    /\ a_done[w][i].payload
                           = Load(cache_files[p].content).payload )

(***************************************************************************)
(* C15: every request of the remote operations (create session, get        *)
(* session state, post message, fetch attachment) is made by a thread that *)
(* has passed the admission of safe_devin_api_call for it.                 *)
(***************************************************************************)
RequestsAreAdmitted == last_request.admitted

(***************************************************************************)
(* C17: when every attempt of the wrapped call fails with a rate-limit     *)
(* error, safe_devin_api_call waits 15 s times the attempt number after    *)
(* each failure (3, 6 and 9 ticks of 5 s), makes the next attempt only     *)
(* when that wait is over, and after the wait that follows the third       *)
(* failure raises the rate-limited error: there is no fourth attempt and   *)
(* no value is returned.                                                   *)
(***************************************************************************)
RateLimitedStep(t) ==
    /\ pc[t] = "call" => attempt[t] < 3
    /\ (pc[t] = "call" /\ pc'[t] = "backoff_rate")
          => wake'[t] = clock + 3 * (attempt[t] + 1)
    /\ ( /\ pc[t] = "backoff_rate"
         /\ rate_fails[t] = attempt[t] + 1
         /\ pc'[t] # "backoff_rate" )
          => /\ clock >= wake[t]
             /\ IF rate_fails[t] = 3
                THEN pc'[t] = "raised_rate_limited"
                ELSE pc'[t] = "call" /\ attempt'[t] = attempt[t] + 1
    /\ rate_fails'[t] = 3
          => pc'[t] \in {"backoff_rate", "raised_rate_limited"}

RateLimitedThreeTimesRaises == [][\A t \in Threads : RateLimitedStep(t)]_vars

RateLimitedThreeTimesRaisesWitness ==
    /\ pc[Caller] = "raised_rate_limited"
    /\ rate_fails[Caller] = 3
    /\ Len(admitted) > 0
    /\ clock >= admitted[Len(admitted)] + 3 + 6 + 9

(***************************************************************************)
(* C18: a create_devin_session that returns gives the session_id of a      *)
(* successful response, never an empty or missing id; a failure is raised  *)
(* only by the third attempt.                                              *)
(***************************************************************************)
CreateReturnsSessionIdOrRaises ==
    \A t \in Threads :
        op[t] = "_create_session" =>
            /\ pc[t] = "returned" => call_result[t] = "session id"
            /\ pc[t] \in {"returned", "raised", "raised_rate_limited"}
                  => call_result[t] \in {"session id", "none"}

(***************************************************************************)
(* C16: under fair scheduling, every thread that has entered               *)
(* safe_devin_api_call and waits for devin_api_lock eventually holds it,   *)
(* records its admission and reaches its call.                             *)
(***************************************************************************)
EveryCallerIsAdmitted ==
    \A t \in Threads : (pc[t] = "acquire") ~> (pc[t] = "call")

\* Two threads are past the admission at once, the second one after it
\* waited for the lock and slept out the pause behind the first.
EveryCallerIsAdmittedWitness ==
    /\ pc[1] = "call"
    /\ pc[2] = "call"
    /\ Len(admitted) = 2
    /\ admitted[2] >= admitted[1] + MIN_SECONDS_BETWEEN_CALLS

(***************************************************************************)
(* C19: when every request was answered and wait_for_session_completion    *)
(* returns a snapshot with a terminal status, it has made exactly as many  *)
(* requests for the session as it took to get the first terminal answer,   *)
(* with show_live set or not.                                              *)
(***************************************************************************)
ReturnsAfterExactlyKPolls ==
    ( /\ poll_pc = "done"
      /\ poll_kind = "session"
      /\ poll_clean
      /\ poll_result.how = "returned"
      /\ poll_result.value.status_enum \in SpecTerminal )
    => poll_gets = poll_first_terminal

(***************************************************************************)
(* C20: wait_for_session_completion returns the timeout result no later    *)
(* than its timeout plus one poll interval after it was called.            *)
(***************************************************************************)
TimeoutWithinOneInterval ==
    ( /\ poll_pc = "done"
      /\ poll_kind = "session"
      /\ poll_result = [how |-> "returned", value |-> TimeoutResult] )
    => clock - start_time <= timeout + PollInterval

(***************************************************************************)
(* C21: with show_live set, the messages are printed in the order of the   *)
(* session, none of them twice, and every message of the snapshot that     *)
(* the poller returns has been printed.                                    *)
(***************************************************************************)
EachMessageEmittedOnce ==
    /\ \A i, j \in 1..Len(emitted) : i < j => emitted[i] < emitted[j]
    /\ ( /\ poll_pc = "done"
         /\ poll_kind = "session"
         /\ show_live
         /\ poll_result.how = "returned" )
       => \A m \in 1..poll_result.value.messages :
              \E i \in 1..Len(emitted) : emitted[i] = m

(***************************************************************************)
(* C22: wait_for_execution_completion returns the snapshot of the first    *)
(* poll that holds a pull-request URL in an agent message or a terminal    *)
(* status, also when the status of that snapshot is working; it pauses for *)
(* another poll only on a snapshot with neither.                           *)
(***************************************************************************)
ExecutionStopsOnPrOrTerminal ==
    [][(poll_kind = "execution") =>
        /\ (poll_pc = "fetch" /\ poll_pc' # "fetch" /\ ~show_live
                /\ failures' = 0
                /\ (remote_pr \/ remote_status \in SpecTerminal))
            => /\ poll_pc' = "done"
               /\ poll_result' =
                      [how |-> "returned",
                       value |-> Snapshot(remote_status, remote_messages,
                                          remote_pr)]
        /\ (poll_pc = "live" /\ poll_pc' # "live"
                /\ (session_data.pr
                       \/ session_data.status_enum \in SpecTerminal))
            => /\ poll_pc' = "done"
               /\ poll_result' = [how |-> "returned", value |-> session_data]
        /\ (poll_pc = "fetch" /\ failures' = 0 /\ poll_pc' = "sleeping")
            => ~remote_pr /\ remote_status \in {"created", "working"} ]_vars

(***************************************************************************)
(* C23: with cancel_session running beside wait_for_session_completion on  *)
(* the same session, the poller, once called, ends, and ends by returning  *)
(* a snapshot with a terminal status or the timeout result; cancel_session,*)
(* once called, ends, and returns True or False; and each of the two ends  *)
(* whatever the other is doing.                                            *)
(***************************************************************************)
CancelBesidePoll ==
    /\ [](poll_pc = "done" =>
            /\ poll_result.how = "returned"
            /\ \/ poll_result.value = TimeoutResult
               \/ poll_result.value.status_enum \in SpecTerminal)
    /\ [](cancel_pc = "done" => cancel_result \in {"True", "False"})
    /\ (poll_pc = "check") ~> (poll_pc = "done")
    /\ (cancel_pc = "send") ~> (cancel_pc = "done")

\* The poller returned the snapshot with status stopped while cancel_session
\* was still between two attempts, and cancel_session then returned too.
CancelBesidePollWitness ==
    /\ poll_pc = "done"
    /\ poll_result.value.status_enum = "stopped"
    /\ cancel_pc = "done"
    /\ cancel_result = "True"
    /\ cancel_posts = 2

(***************************************************************************)
(* C24: a thread holds devin_api_lock only between taking it and recording *)
(* its admission (reading the clock, sleeping out the pause, writing       *)
(* last_devin_api_call); a thread whose wrapped call runs, or that pauses  *)
(* between attempts, does not hold it.                                     *)
(***************************************************************************)
LockHeldOnlyForAdmission ==
    \A t \in Threads :
        /\ devin_api_lock = t => pc[t] \in {"locked", "sleeping", "record"}
        /\ pc[t] \in {"call", "backoff", "backoff_rate"} => devin_api_lock # t

\* The calls of two threads are in flight at once while a third party could
\* take the lock.
LockHeldOnlyForAdmissionWitness ==
    /\ devin_api_lock = 0
    /\ \A t \in {1, 2} : pc[t] = "call" /\ attempt[t] = 0

(***************************************************************************)
(* C25: wait_for_session_completion and wait_for_execution_completion send *)
(* nothing to the session: every request they make is a GET, no step of    *)
(* theirs changes the session at the service, and the step that returns    *)
(* the timeout result makes no request at all.                             *)
(***************************************************************************)
PollerPostsNothing ==
    [][(poll_kind' \in CorePollers) =>
        /\ poll_methods' \subseteq {"GET"}
        /\ pollVars' # pollVars => remoteVars' = remoteVars
        /\ (poll_pc # "done" /\ poll_pc' = "done"
                /\ poll_result' = [how |-> "returned", value |-> TimeoutResult])
            => poll_gets' = poll_gets ]_vars

\* The deadline expired after two rounds on a session that is still working.
PollerPostsNothingWitness ==
    /\ poll_pc = "done"
    /\ poll_kind \in CorePollers
    /\ poll_result = [how |-> "returned", value |-> TimeoutResult]
    /\ poll_gets >= 2
    /\ poll_methods = {"GET"}
    /\ remote_status = "working"

(***************************************************************************)
(* C26: when several agent messages carry a matching attachment marker and *)
(* every download succeeds, single-result extraction returns the           *)
(* attachment of the newest such message, the last one in the snapshot's   *)
(* message list.                                                           *)
(***************************************************************************)
NewestMessageFirst ==
    ( /\ ext_pc = "done"
      /\ ext_kind \in {"extract_analysis_from_session",
                       "extract_json_from_session"}
      /\ ext_session.error = "none"
      /\ ~ext_session.structured_output.present
      /\ \A u \in Uuids : ext_store[u].outcome = "ok"
      /\ ExtGood # << >> )
    => ( /\ ext_result.how = "returned"
         /\ ext_result.value = AttachmentContent(ExtGood[Len(ExtGood)]) )

\* Every attachment the snapshot names: the markers of the agent messages in
\* message order, then the attachment list of the structured result.
ExtNamed ==
    ExtractAttachmentUrlsFromMessages(ext_session.messages, ext_store)
    \o (IF ext_session.structured_output.present
        THEN [i \in 1..Len(ext_session.structured_output.attachments) |->
                  ParseAttachmentUrl(
                      ext_session.structured_output.attachments[i],
                      ext_store)]
        ELSE << >>)

\* The place of the first attachment with uuid u in a list that holds one.
FirstPlace(list, u) ==
    CHOOSE i \in 1..Len(list) :
        /\ list[i].uuid = u
        /\ \A j \in 1..(i - 1) : list[j].uuid # u

(***************************************************************************)
(* C27: the candidate list built from a snapshot holds each attachment id  *)
(* at most once, holds every id the snapshot names, and holds them as      *)
(* their first occurrences and in the order of those first occurrences.    *)
(***************************************************************************)
CandidatesHoldEachIdOnce ==
    (ext_pc = "done" /\ ext_kind = "extract_analysis_from_session") =>
    LET c == ExtractAttachmentsFromSessionData(ext_session, ext_store)
        named == ExtNamed
    IN  /\ {c[i].uuid : i \in 1..Len(c)}
               = {named[i].uuid : i \in 1..Len(named)}
        /\ \A i \in 1..Len(c) : c[i] = named[FirstPlace(named, c[i].uuid)]
        /\ \A i, j \in 1..Len(c) :
               i < j => /\ c[i].uuid # c[j].uuid
                        /\ FirstPlace(named, c[i].uuid)
                               < FirstPlace(named, c[j].uuid)

\* A snapshot that names u1 in a message and again in the structured
\* result, with u2 between them.
CandidatesHoldEachIdOnceWitness ==
    /\ ext_pc = "done"
    /\ ext_kind = "extract_analysis_from_session"
    /\ Len(ExtNamed) = 3
    /\ ExtNamed[1].uuid = ExtNamed[3].uuid
    /\ Len(ExtractAttachmentsFromSessionData(ext_session, ext_store)) = 2

(***************************************************************************)
(* C28: when its deadline has passed, the asynchronous                     *)
(* wait_for_session_completion ends by returning the timeout result; it    *)
(* does not end by raising.                                                *)
(***************************************************************************)
ApiTimeoutIsReturned ==
    [][( /\ poll_kind = "api"
         /\ poll_pc = "check"
         /\ poll_pc' = "done" )
       => poll_result' = [how |-> "returned", value |-> TimeoutResult]]_vars

(***************************************************************************)
(* C29: no agent opens its cache file for a document it did not extract   *)
(* from the session: a call whose poll timed out, or whose snapshot held   *)
(* no artifact, has only the made-up default document or an error in hand  *)
(* and writes nothing, so the entry for its key stays absent.              *)
(***************************************************************************)
EntryOnlyForExtractedArtifact ==
    \A w \in Workers :
        /\ a_pc[w] \in {"open", "write", "close"} => a_doc[w] # DefaultAnalysis
        /\ \A i \in 1..Len(a_done[w]) :
               ( /\ a_done[w][i].sessions > 0
                 /\ \/ a_done[w][i].how = "raised"
                    \/ a_done[w][i].payload = DefaultAnalysis )
               => ~a_done[w][i].wrote

(***************************************************************************)
(* C30: one call of create_devin_session makes the service create at most  *)
(* one session, retries included.                                          *)
(***************************************************************************)
OneCallOneSession ==
    \A t \in Threads : sessions_created[t] <= 1

(***************************************************************************)
(* C31: two calls for the same key that are under way at the same time     *)
(* create at most one session between them.                                *)
(***************************************************************************)
OneSessionPerKey ==
    \A v, w \in Workers :
        ( /\ v # w
          /\ a_pc[v] # "idle"
          /\ a_pc[w] # "idle"
          /\ a_kind[v] = a_kind[w]
          /\ a_kind[v] \in {"feasibility", "plan"}
          /\ a_subject[v] = a_subject[w] )
        => a_sessions[v] + a_sessions[w] <= 1


(* C32: two requests made one after the other through safe_devin_api_call, *)
(* retry attempts counted, start at least MIN_SECONDS_BETWEEN_CALLS apart. *)
RequestsSpaced ==
    [][ ( /\ last_request' # last_request
          /\ last_request'.admitted
          /\ last_request.admitted
          /\ last_request.op # "none" )
        => last_request'.at - last_request.at >= MIN_SECONDS_BETWEEN_CALLS
      ]_vars


(***************************************************************************)
(* C33: under fair scheduling, a worker whose wrapped agent method calls   *)
(* safe_devin_api_call itself gets devin_api_lock for that inner call, and *)
(* so does every worker that waits for the lock: no worker waits forever.  *)
(***************************************************************************)
InnerCallGetsLock ==
    \A t \in Threads : (pc[t] = "acquire") ~> (devin_api_lock = t)

\* Both workers are inside their methods, one holding the lock for its
\* inner call while the other waits for it for its own inner call.
InnerCallGetsLockWitness ==
    /\ outer[1] # <<>>
    /\ outer[2] # <<>>
    /\ devin_api_lock = 1
    /\ pc[1] = "sleeping"
    /\ pc[2] = "acquire"


(***************************************************************************)
(* C34: while a poll runs, last_message_count never goes down, whether a   *)
(* fetch fails or returns fewer messages than were seen before.            *)
(***************************************************************************)
MessageCountNeverDecreases ==
    [][last_message_count' >= last_message_count]_vars

\* With show_live, a message was displayed and a later request of the poll
\* failed, which yields no messages: the count is still 1.
MessageCountNeverDecreasesWitness ==
    /\ show_live
    /\ last_message_count = 1
    /\ emitted = <<1>>
    /\ ~poll_clean
    /\ poll_gets >= 4
    /\ poll_pc \in {"sleeping", "done"}


(***************************************************************************)
(* C35: a call that finds its cache entry present, also while another      *)
(* thread is writing that entry, returns a complete document: its          *)
(* json.load never fails on a truncated file.                              *)
(***************************************************************************)
PresentEntryIsParsed ==
    \A w \in Workers : \A i \in 1..Len(a_done[w]) :
        a_done[w][i].checked = "present" => a_done[w][i].how = "returned"


(***************************************************************************)
(* C36: when run_agents_on_issue has taken Agent 2's error from the queue  *)
(* and returned, and Agent 3's thread has ended, a session that Agent 3    *)
(* created was sent the stop instruction.                                  *)
(***************************************************************************)
Agent3SessionStopped ==
    ( /\ [agent |-> "agent2", error |-> TRUE] \in run_reports
      /\ run_pc = "done"
      /\ thread_pc["agent3"] = "dead"
      /\ agent3_sessions > 0 )
    => stop_sent

(***************************************************************************)
(* C37: run_agents_on_issue reports an agent as failed only when the       *)
(* agent's thread put an error on the queue or ended without putting       *)
(* anything: a result put just before the thread exits is consumed.        *)
(***************************************************************************)
FailureReportedOnlyForError ==
    \A r \in run_reports : put_kind[r.agent] \in {"error", "none"}


(***************************************************************************)
(* C38: get_cache_file_path returns distinct paths for distinct subjects,  *)
(* a subject being a category, a repository owner and name, and an issue   *)
(* number.                                                                 *)
(***************************************************************************)
DistinctSubjectsDistinctPaths ==
    ( /\ key_subjects # <<>>
      /\ key_subjects[1] # key_subjects[2] )
    => key_paths[1] # key_paths[2]

=============================================================================
